---- MODULE Spec2Model ----
(***************************************************************************)
(* A model of the MIDI MCP server (index.ts and services/MidiService.ts). *)
(*                                                                         *)
(* The server runs on one JavaScript event loop.  A tool call is an async  *)
(* handler; every `await` ends an atomic segment of it.  The model has one *)
(* action per segment: the code between two awaits runs as one step, and   *)
(* the segments of different calls and song tracks interleave.  Timers     *)
(* (setTimeout) fire only when no continuation is ready to run, as on the  *)
(* event loop, and in the order of their deadlines.                        *)
(*                                                                         *)
(* The port transport (the jzz library) is outside the repository; it is   *)
(* modelled as the code uses it: openMidiOut(name) returns a port or       *)
(* throws, and port.send(bytes) delivers the bytes as given.               *)
(***************************************************************************)
EXTENDS Integers, Sequences, FiniteSets, TLC

-----------------------------------------------------------------------------
(* JavaScript values                                                       *)

\* An optional field: None is a missing (undefined) field, Some(v) a given one.
None == <<>>
Some(v) == <<v>>

\* A mutation of Coalesce: o || d, which also replaces a given 0.
CoalesceOr(o, d) == IF o = None \/ o = Some(0) THEN d ELSE o[1]

\* o ?? d
Coalesce(o, d) == IF o = None THEN d ELSE o[1]

\* !s for an optional string: undefined and "" are both falsy.
Falsy(s) == s = None \/ s = Some("")

\* The value `undefined` where it ends up as an element of a byte array.
UNDEF == -1

RECURSIVE Flatten(_)
Flatten(ss) == IF ss = <<>> THEN <<>> ELSE Head(ss) \o Flatten(Tail(ss))

MinOf(S) == CHOOSE x \in S : \A y \in S : x <= y

-----------------------------------------------------------------------------
(* Bounds of the model                                                     *)

\* Largest loop count a song track of the model asks for.
MaxLoop == 2

\* How many messages the input ports deliver in the runs that fill the log.
MaxReceived == 102

-----------------------------------------------------------------------------
(* Program constants                                                       *)

MAX_LOGS == 100
NOTE_ON == 144
NOTE_OFF == 128
CONTROL_CHANGE == 176
PROGRAM_CHANGE == 192
PITCH_BEND == 224
BEND_CENTER == 8192
DEFAULT_VELOCITY == 64
DEFAULT_DURATION == 500
DEFAULT_CHANNEL == 1
DEFAULT_BPM == 120
DEFAULT_LOOP == 1

\* The clock advances by at most this many milliseconds in one step: every
\* delay of the model's requests is a multiple of it.
Quantum == DEFAULT_DURATION \div 2

\* The ports of the machine: the names openMidiOut / openMidiIn can open.
OutputPorts == {"p1", "p2"}
InputPorts == {"in1"}

-----------------------------------------------------------------------------
(* Requests                                                                *)

\* request.params of a tool call.  The `notes` argument of
\* midi_play_sequence (a list of objects) is the field `items`; the `notes`
\* argument of midi_play_chord (a list of numbers) is the field `notes`.
BaseReq ==
  [name |-> "", port |-> None, bytes |-> None, note |-> None,
   velocity |-> None, duration |-> None, channel |-> None,
   controller |-> None, value |-> None, program |-> None,
   notes |-> None, items |-> None, bpm |-> None, tracks |-> None]

\* An item of midi_play_sequence's notes.
SeqNote(note, velocity, duration) ==
  [note |-> note, velocity |-> velocity, duration |-> duration]

\* noteEvent.note: a number, an array of numbers, or missing.
NoteNum(n) == [tag |-> "num", num |-> n, arr |-> <<>>]
NoteArr(a) == [tag |-> "arr", num |-> 0, arr |-> a]
NoteMissing == [tag |-> "undef", num |-> 0, arr |-> <<>>]

\* noteEvent.duration: a number of beats, a string, or missing.
DurNum(n) == [tag |-> "num", num |-> n, sym |-> ""]
DurSym(s) == [tag |-> "sym", num |-> 0, sym |-> s]
DurMissing == [tag |-> "undef", num |-> 0, sym |-> ""]

NoteEvent(note, duration, velocity, cc) ==
  [note |-> note, duration |-> duration, velocity |-> velocity, cc |-> cc]

Cc(controller, value) == [controller |-> controller, value |-> value]

Track(port, channel, instrument, loop, notes) ==
  [port |-> port, channel |-> channel, instrument |-> instrument,
   loop |-> loop, notes |-> notes]

-----------------------------------------------------------------------------
(* Scheduled plans                                                         *)

\* One step of a timeline: a send (awaited), a wait (an awaited timer) or a
\* throw.  kind, loop, ev and idx say where in the source loop the step is.
SendItem(port, bytes, kind, loop, ev, idx) ==
  [type |-> "send", port |-> port, bytes |-> bytes, kind |-> kind,
   loop |-> loop, ev |-> ev, idx |-> idx, ms |-> 0]

WaitItem(ms, loop, ev) ==
  [type |-> "wait", port |-> "", bytes |-> <<>>, kind |-> "wait",
   loop |-> loop, ev |-> ev, idx |-> 0, ms |-> ms]

ThrowItem(loop, ev) ==
  [type |-> "throw", port |-> "", bytes |-> <<>>, kind |-> "throw",
   loop |-> loop, ev |-> ev, idx |-> 0, ms |-> 0]

\* A mutation of InternalChannel: the channel is used as given.
InternalChannelAsGiven(channel) == Coalesce(channel, DEFAULT_CHANNEL)

\* (args.channel ?? 1) - 1
InternalChannel(channel) == Coalesce(channel, DEFAULT_CHANNEL) - 1

\* 0x90 + channel and its siblings: plain number addition, no masking.
StatusByte(base, channel) == base + InternalChannel(channel)

\* `channel + 1` of the result text of a handler.
ReportedChannel(req) == InternalChannel(req.channel) + 1

\* A mutation of BendMsb: the shift is by 8 bits.
BendMsbShift8(value) == ((value + BEND_CENTER) \div 256) % 128

\* bendValue & 0x7F and (bendValue >> 7) & 0x7F.  On two's-complement
\* integers x & 0x7F is x modulo 128 and x >> 7 is the floor of x / 128, also
\* for a negative x; % and \div are that modulo and that floor.
BendLsb(value) == (value + BEND_CENTER) % 128
BendMsb(value) == ((value + BEND_CENTER) \div 128) % 128

SendRawPlan(req) ==
  << SendItem(req.port[1], req.bytes[1], "raw", 0, 0, 0) >>

NoteOnPlan(req) ==
  << SendItem(req.port[1],
              << StatusByte(NOTE_ON, req.channel), req.note[1],
                 Coalesce(req.velocity, DEFAULT_VELOCITY) >>,
              "on", 0, 1, 1) >>

NoteOffPlan(req) ==
  << SendItem(req.port[1],
              << StatusByte(NOTE_OFF, req.channel), req.note[1],
                 Coalesce(req.velocity, DEFAULT_VELOCITY) >>,
              "off", 0, 1, 1) >>

ControlChangePlan(req) ==
  << SendItem(req.port[1],
              << StatusByte(CONTROL_CHANGE, req.channel), req.controller[1],
                 req.value[1] >>,
              "cc", 0, 0, 0) >>

ProgramChangePlan(req) ==
  << SendItem(req.port[1],
              << StatusByte(PROGRAM_CHANGE, req.channel), req.program[1] >>,
              "pc", 0, 0, 0) >>

PitchBendPlan(req) ==
  << SendItem(req.port[1],
              << StatusByte(PITCH_BEND, req.channel), BendLsb(req.value[1]),
                 BendMsb(req.value[1]) >>,
              "bend", 0, 0, 0) >>

\* A mutation of PlayNotePlan: the timer's callback sends nothing.
PlayNotePlanNoOff(req) ==
  LET velocity == Coalesce(req.velocity, DEFAULT_VELOCITY)
      duration == Coalesce(req.duration, DEFAULT_DURATION)
  IN << SendItem(req.port[1],
                 << StatusByte(NOTE_ON, req.channel), req.note[1], velocity >>,
                 "on", 0, 1, 1),
        WaitItem(duration, 0, 1) >>

\* midi_play_note: note-on, then the timer of setTimeout, then the note-off
\* of the timer's callback.
PlayNotePlan(req) ==
  LET velocity == Coalesce(req.velocity, DEFAULT_VELOCITY)
      duration == Coalesce(req.duration, DEFAULT_DURATION)
  IN << SendItem(req.port[1],
                 << StatusByte(NOTE_ON, req.channel), req.note[1], velocity >>,
                 "on", 0, 1, 1),
        WaitItem(duration, 0, 1),
        SendItem(req.port[1],
                 << StatusByte(NOTE_OFF, req.channel), req.note[1], velocity >>,
                 "off", 0, 1, 1) >>

\* A mutation of PlaySequencePlan: every note is held for the default
\* duration.
PlaySequencePlanFixedWait(req) ==
  LET notes == req.items[1]
      one(i) ==
        LET noteInfo == notes[i]
            note == Coalesce(noteInfo.note, UNDEF)
            velocity == Coalesce(noteInfo.velocity, DEFAULT_VELOCITY)
        IN << SendItem(req.port[1],
                       << StatusByte(NOTE_ON, req.channel), note, velocity >>,
                       "on", 0, i, 1),
              WaitItem(DEFAULT_DURATION, 0, i),
              SendItem(req.port[1],
                       << StatusByte(NOTE_OFF, req.channel), note, velocity >>,
                       "off", 0, i, 1) >>
  IN Flatten([i \in 1..Len(notes) |-> one(i)])

\* midi_play_sequence: for each note: note-on, wait, note-off.
PlaySequencePlan(req) ==
  LET notes == req.items[1]
      one(i) ==
        LET noteInfo == notes[i]
            note == Coalesce(noteInfo.note, UNDEF)
            velocity == Coalesce(noteInfo.velocity, DEFAULT_VELOCITY)
            duration == Coalesce(noteInfo.duration, DEFAULT_DURATION)
        IN << SendItem(req.port[1],
                       << StatusByte(NOTE_ON, req.channel), note, velocity >>,
                       "on", 0, i, 1),
              WaitItem(duration, 0, i),
              SendItem(req.port[1],
                       << StatusByte(NOTE_OFF, req.channel), note, velocity >>,
                       "off", 0, i, 1) >>
  IN Flatten([i \in 1..Len(notes) |-> one(i)])

\* A mutation of PlayChordPlan: each note is held for the duration before
\* the next one starts.
PlayChordPlanArpeggio(req) ==
  LET notes == req.notes[1]
      velocity == Coalesce(req.velocity, DEFAULT_VELOCITY)
      duration == Coalesce(req.duration, DEFAULT_DURATION)
  IN Flatten([i \in 1..Len(notes) |->
       << SendItem(req.port[1],
                   << StatusByte(NOTE_ON, req.channel), notes[i], velocity >>,
                   "on", 0, 1, i),
          WaitItem(duration, 0, 1),
          SendItem(req.port[1],
                   << StatusByte(NOTE_OFF, req.channel), notes[i], velocity >>,
                   "off", 0, 1, i) >>])

\* totalDuration of midi_play_sequence after the first k notes: the loop
\* adds each note's duration.
RECURSIVE TotalDuration(_, _)
TotalDuration(req, k) ==
  IF k = 0 THEN 0
  ELSE TotalDuration(req, k - 1)
       + Coalesce(req.items[1][k].duration, DEFAULT_DURATION)

\* A mutation of PlayChordPlan: the note-offs carry velocity 0.
PlayChordPlanOffVelocity0(req) ==
  LET notes == req.notes[1]
      velocity == Coalesce(req.velocity, DEFAULT_VELOCITY)
      duration == Coalesce(req.duration, DEFAULT_DURATION)
  IN [i \in 1..Len(notes) |->
        SendItem(req.port[1],
                 << StatusByte(NOTE_ON, req.channel), notes[i], velocity >>,
                 "on", 0, 1, i)]
     \o << WaitItem(duration, 0, 1) >>
     \o [i \in 1..Len(notes) |->
        SendItem(req.port[1],
                 << StatusByte(NOTE_OFF, req.channel), notes[i], 0 >>,
                 "off", 0, 1, i)]

\* midi_play_chord: every note-on, one wait, every note-off.
PlayChordPlan(req) ==
  LET notes == req.notes[1]
      velocity == Coalesce(req.velocity, DEFAULT_VELOCITY)
      duration == Coalesce(req.duration, DEFAULT_DURATION)
  IN [i \in 1..Len(notes) |->
        SendItem(req.port[1],
                 << StatusByte(NOTE_ON, req.channel), notes[i], velocity >>,
                 "on", 0, 1, i)]
     \o << WaitItem(duration, 0, 1) >>
     \o [i \in 1..Len(notes) |->
        SendItem(req.port[1],
                 << StatusByte(NOTE_OFF, req.channel), notes[i], velocity >>,
                 "off", 0, 1, i)]

\* A number of milliseconds that need not be whole: num / den.
Ratio(num, den) == [num |-> num, den |-> den]

\* (60 / bpm) * 1000: the quotient is kept exact.
BeatDuration(bpm) == Ratio(60 * 1000, bpm)

\* A mutation of GetDuration: an eighth is a quarter of a beat.
GetDurationShortEighth(duration, beatDuration) ==
  IF duration.tag = "num"
  THEN Ratio(duration.num * beatDuration.num, beatDuration.den)
  ELSE IF duration.tag = "undef" THEN beatDuration
  ELSE CASE duration.sym = "whole" ->
              Ratio(beatDuration.num * 4, beatDuration.den)
         [] duration.sym = "half" ->
              Ratio(beatDuration.num * 2, beatDuration.den)
         [] duration.sym = "quarter" -> beatDuration
         [] duration.sym = "eighth" ->
              Ratio(beatDuration.num, beatDuration.den * 4)
         [] duration.sym = "sixteenth" ->
              Ratio(beatDuration.num, beatDuration.den * 4)
         [] OTHER -> beatDuration

\* getDuration of midi_play_song: a number is a count of beats, a string one
\* of the five names or else a beat, and a missing duration a beat.
GetDuration(duration, beatDuration) ==
  IF duration.tag = "num"
  THEN Ratio(duration.num * beatDuration.num, beatDuration.den)
  ELSE IF duration.tag = "undef" THEN beatDuration
  ELSE CASE duration.sym = "whole" ->
              Ratio(beatDuration.num * 4, beatDuration.den)
         [] duration.sym = "half" ->
              Ratio(beatDuration.num * 2, beatDuration.den)
         [] duration.sym = "quarter" -> beatDuration
         [] duration.sym = "eighth" ->
              Ratio(beatDuration.num, beatDuration.den * 2)
         [] duration.sym = "sixteenth" ->
              Ratio(beatDuration.num, beatDuration.den * 4)
         [] OTHER -> beatDuration

\* The delay setTimeout runs for a duration: its whole milliseconds.
Millis(duration) == duration.num \div duration.den

\* Array.isArray(noteEvent.note) ? noteEvent.note : [noteEvent.note]
EventNotes(noteEvent) ==
  CASE noteEvent.note.tag = "arr" -> noteEvent.note.arr
    [] noteEvent.note.tag = "num" -> << noteEvent.note.num >>
    [] OTHER -> << UNDEF >>

\* A mutation of EventPlan: the note-offs are sent before the wait.
EventPlanOffEarly(trackPort, channel, noteEvent, beatDuration, loop, ev) ==
  LET velocity == Coalesce(noteEvent.velocity, DEFAULT_VELOCITY)
      duration == GetDuration(noteEvent.duration, beatDuration)
      notes == EventNotes(noteEvent)
  IN [i \in 1..Len(notes) |->
        SendItem(trackPort, << NOTE_OFF + channel, notes[i], velocity >>,
                 "off", loop, ev, i)]
     \o [i \in 1..Len(notes) |->
        SendItem(trackPort, << NOTE_ON + channel, notes[i], velocity >>,
                 "on", loop, ev, i)]
     \o << WaitItem(Millis(duration), loop, ev) >>

\* The body of the event loop of a song track: the CC if given, the
\* note-ons, the wait, the note-offs.
EventPlan(trackPort, channel, noteEvent, beatDuration, loop, ev) ==
  LET velocity == Coalesce(noteEvent.velocity, DEFAULT_VELOCITY)
      duration == GetDuration(noteEvent.duration, beatDuration)
      notes == EventNotes(noteEvent)
      cc == IF noteEvent.cc = None THEN <<>>
            ELSE << SendItem(trackPort,
                             << CONTROL_CHANGE + channel,
                                noteEvent.cc[1].controller,
                                noteEvent.cc[1].value >>,
                             "cc", loop, ev, 0) >>
  IN cc
     \o [i \in 1..Len(notes) |->
        SendItem(trackPort, << NOTE_ON + channel, notes[i], velocity >>,
                 "on", loop, ev, i)]
     \o << WaitItem(Millis(duration), loop, ev) >>
     \o [i \in 1..Len(notes) |->
        SendItem(trackPort, << NOTE_OFF + channel, notes[i], velocity >>,
                 "off", loop, ev, i)]

\* A mutation of TrackPlan: the loop count repeats each event instead of
\* the whole sequence of events.
TrackPlanLoopPerEvent(req, k) ==
  LET track == req.tracks[1][k]
      trackPort == Coalesce(track.port, req.port[1])
      channel == InternalChannel(track.channel)
      loops == Coalesce(track.loop, DEFAULT_LOOP)
      beatDuration == BeatDuration(Coalesce(req.bpm, DEFAULT_BPM))
      programChange ==
        IF track.instrument = None THEN <<>>
        ELSE << SendItem(trackPort,
                         << PROGRAM_CHANGE + channel, track.instrument[1] >>,
                         "pc", 0, 0, 0) >>
      body ==
        IF loops < 1 THEN <<>>
        ELSE IF track.notes = None THEN << ThrowItem(1, 0) >>
        ELSE Flatten([ev \in 1..Len(track.notes[1]) |->
               Flatten([loop \in 1..loops |->
                 EventPlan(trackPort, channel, track.notes[1][ev],
                           beatDuration, loop, ev)])])
  IN programChange \o body

\* A mutation of TrackPlan: every track sends to the song's port.
TrackPlanSongPort(req, k) ==
  LET track == req.tracks[1][k]
      trackPort == req.port[1]
      channel == InternalChannel(track.channel)
      loops == Coalesce(track.loop, DEFAULT_LOOP)
      beatDuration == BeatDuration(Coalesce(req.bpm, DEFAULT_BPM))
      programChange ==
        IF track.instrument = None THEN <<>>
        ELSE << SendItem(trackPort,
                         << PROGRAM_CHANGE + channel, track.instrument[1] >>,
                         "pc", 0, 0, 0) >>
      body ==
        IF loops < 1 THEN <<>>
        ELSE IF track.notes = None THEN << ThrowItem(1, 0) >>
        ELSE Flatten([loop \in 1..loops |->
               Flatten([ev \in 1..Len(track.notes[1]) |->
                 EventPlan(trackPort, channel, track.notes[1][ev],
                           beatDuration, loop, ev)])])
  IN programChange \o body

\* The async function midi_play_song maps over args.tracks.
TrackPlan(req, k) ==
  LET track == req.tracks[1][k]
      trackPort == Coalesce(track.port, req.port[1])
      channel == InternalChannel(track.channel)
      loops == Coalesce(track.loop, DEFAULT_LOOP)
      beatDuration == BeatDuration(Coalesce(req.bpm, DEFAULT_BPM))
      programChange ==
        IF track.instrument = None THEN <<>>
        ELSE << SendItem(trackPort,
                         << PROGRAM_CHANGE + channel, track.instrument[1] >>,
                         "pc", 0, 0, 0) >>
      body ==
        IF loops < 1 THEN <<>>
        ELSE IF track.notes = None THEN << ThrowItem(1, 0) >>
        ELSE Flatten([loop \in 1..loops |->
               Flatten([ev \in 1..Len(track.notes[1]) |->
                 EventPlan(trackPort, channel, track.notes[1][ev],
                           beatDuration, loop, ev)])])
  IN programChange \o body

IsSong(req) == req.name = "midi_play_song"

\* The plan of timeline t of a request that passed its validation.
PlanOf(req, t) ==
  CASE req.name = "midi_send" -> SendRawPlan(req)
    [] req.name = "midi_note_on" -> NoteOnPlan(req)
    [] req.name = "midi_note_off" -> NoteOffPlan(req)
    [] req.name = "midi_play_note" -> PlayNotePlan(req)
    [] req.name = "midi_control_change" -> ControlChangePlan(req)
    [] req.name = "midi_program_change" -> ProgramChangePlan(req)
    [] req.name = "midi_pitch_bend" -> PitchBendPlan(req)
    [] req.name = "midi_play_sequence" -> PlaySequencePlan(req)
    [] req.name = "midi_play_chord" -> PlayChordPlan(req)
    [] req.name = "midi_play_song" -> TrackPlan(req, t)
    [] OTHER -> <<>>

\* A mutation of ToolNames: the switch has no case for midi_play_song.
ToolNamesNoSong ==
  {"midi_list_ports", "midi_send", "midi_note_on", "midi_note_off",
   "midi_play_note", "midi_control_change", "midi_program_change",
   "midi_pitch_bend", "midi_play_sequence", "midi_play_chord"}

\* The cases of the switch on the tool name.
ToolNames ==
  {"midi_list_ports", "midi_send", "midi_note_on", "midi_note_off",
   "midi_play_note", "midi_control_change", "midi_program_change",
   "midi_pitch_bend", "midi_play_sequence", "midi_play_chord",
   "midi_play_song"}

\* The `throw new Error("Missing arguments: ...")` guards of the handlers.
MissingArguments(req) ==
  CASE req.name = "midi_send" -> Falsy(req.port) \/ req.bytes = None
    [] req.name \in {"midi_note_on", "midi_note_off", "midi_play_note"} ->
         Falsy(req.port) \/ req.note = None
    [] req.name = "midi_control_change" ->
         Falsy(req.port) \/ req.controller = None \/ req.value = None
    [] req.name = "midi_program_change" ->
         Falsy(req.port) \/ req.program = None
    [] req.name = "midi_pitch_bend" -> Falsy(req.port) \/ req.value = None
    [] req.name = "midi_play_sequence" ->
         Falsy(req.port) \/ req.items = None \/ req.items = Some(<<>>)
    [] req.name = "midi_play_chord" ->
         Falsy(req.port) \/ req.notes = None \/ req.notes = Some(<<>>)
    [] req.name = "midi_play_song" ->
         Falsy(req.port) \/ req.tracks = None \/ req.tracks = Some(<<>>)
    [] OTHER -> FALSE

-----------------------------------------------------------------------------
(* State                                                                   *)

VARIABLES
  call,             \* per call: its status, its request, its error
  tls,              \* per call: its timelines (one, or one per song track)
  activeOutputs,    \* MidiService.activeOutputs: the names with a cached port
  activeInputs,     \* MidiService.activeInputs
  midiLogs,         \* the log ring, newest first
  sent,             \* every message delivered to the transport, in order
  instance,         \* MidiService.instance is set
  jzz,              \* MidiService.instance.jzz is set
  midiService,      \* index.ts's midiService is set
  initCount,        \* how many times initialize() has run
  connectedInputs,  \* index.ts's connectedInputs
  subs,             \* per input port: how many callbacks are connected
  received          \* how many messages the input ports have delivered

vars ==
  << call, tls, activeOutputs, activeInputs, midiLogs, sent, instance, jzz,
     midiService, initCount, connectedInputs, subs, received >>

serviceVars ==
  << activeInputs, instance, jzz, midiService, initCount, connectedInputs,
     subs, received >>

\* The input ports in the order listPorts returns them.
InputPortList == << "in1" >>

IdleCall == [st |-> "idle", req |-> BaseReq, err |-> "", k |-> 0]

\* A timeline: plan is what its code does, step by step, and pc the next
\* step; mode is "await" after a send whose await has not resumed, "timer"
\* while a timer of rem ms is pending, "done" at the end of the plan and
\* "failed" after a throw.
Timeline(plan, pc, mode, rem, err) ==
  [plan |-> plan, pc |-> pc, mode |-> mode, rem |-> rem, err |-> err]

-----------------------------------------------------------------------------
(* The port transport and the log                                          *)

\* this.jzz.openMidiOut(portName) returns a port (TRUE) or throws (FALSE).
OpenMidiOut(portName) == portName \in OutputPorts

\* A mutation of SendMessage: when the port does not open, the message goes
\* to a port that is open.
SendMessageFallback(w, portName, message, meta) ==
  IF portName \in w.outs
  THEN [ok |-> TRUE, outs |-> w.outs,
        sent |-> Append(w.sent, [meta EXCEPT !.port = portName,
                                             !.bytes = message])]
  ELSE IF OpenMidiOut(portName)
  THEN [ok |-> TRUE, outs |-> w.outs \cup {portName},
        sent |-> Append(w.sent, [meta EXCEPT !.port = portName,
                                             !.bytes = message,
                                             !.opened = TRUE])]
  ELSE IF w.outs # {}
  THEN [ok |-> TRUE, outs |-> w.outs,
        sent |-> Append(w.sent, [meta EXCEPT
                                   !.port = CHOOSE q \in w.outs : TRUE,
                                   !.bytes = message])]
  ELSE [ok |-> FALSE, outs |-> w.outs, sent |-> w.sent]

\* A mutation of SendMessage: a port that did not open is cached all the
\* same.
SendMessageCacheFailure(w, portName, message, meta) ==
  IF portName \in w.outs
  THEN [ok |-> TRUE, outs |-> w.outs,
        sent |-> Append(w.sent, [meta EXCEPT !.port = portName,
                                             !.bytes = message])]
  ELSE IF OpenMidiOut(portName)
  THEN [ok |-> TRUE, outs |-> w.outs \cup {portName},
        sent |-> Append(w.sent, [meta EXCEPT !.port = portName,
                                             !.bytes = message,
                                             !.opened = TRUE])]
  ELSE [ok |-> FALSE, outs |-> w.outs \cup {portName}, sent |-> w.sent]

\* A mutation of SendMessage: the cache is not looked up, every send opens
\* its port.
SendMessageReopen(w, portName, message, meta) ==
  IF OpenMidiOut(portName)
  THEN [ok |-> TRUE, outs |-> w.outs \cup {portName},
        sent |-> Append(w.sent, [meta EXCEPT !.port = portName,
                                             !.bytes = message,
                                             !.opened = TRUE])]
  ELSE [ok |-> FALSE, outs |-> w.outs, sent |-> w.sent]

\* MidiService.sendMessage on the world w = [outs, sent]: the cached port
\* is used, or the port is opened and cached, or the open throws; then
\* port.send(message).  meta tags the delivery with its call and plan step;
\* opened says that this send opened the port.
SendMessage(w, portName, message, meta) ==
  IF portName \in w.outs
  THEN [ok |-> TRUE, outs |-> w.outs,
        sent |-> Append(w.sent, [meta EXCEPT !.port = portName,
                                             !.bytes = message])]
  ELSE IF OpenMidiOut(portName)
  THEN [ok |-> TRUE, outs |-> w.outs \cup {portName},
        sent |-> Append(w.sent, [meta EXCEPT !.port = portName,
                                             !.bytes = message,
                                             !.opened = TRUE])]
  ELSE [ok |-> FALSE, outs |-> w.outs, sent |-> w.sent]

\* data.map(b => b.toString(16)...) throws on an undefined element.
LogThrows(data) == \E i \in 1..Len(data) : data[i] = UNDEF

\* A mutation of LogMidi: the entry is put at the tail.
LogMidiAtTail(logs, direction, port, data, by) ==
  LET pushed == logs \o << [direction |-> direction, port |-> port,
                            data |-> data, by |-> by] >>
  IN IF Len(pushed) > MAX_LOGS THEN SubSeq(pushed, 1, Len(pushed) - 1)
     ELSE pushed

\* A mutation of LogMidi: the entry past MAX_LOGS is dropped at the head.
LogMidiDropNewest(logs, direction, port, data, by) ==
  LET pushed == << [direction |-> direction, port |-> port, data |-> data,
                    by |-> by] >>
                \o logs
  IN IF Len(pushed) > MAX_LOGS THEN SubSeq(pushed, 2, Len(pushed))
     ELSE pushed

\* logMidi: insert at the head, drop the tail past MAX_LOGS.  An entry is
\* kept as its parts (the timestamp is left out); by says which call,
\* timeline and plan step logged it.
LogMidi(logs, direction, port, data, by) ==
  LET pushed == << [direction |-> direction, port |-> port, data |-> data,
                    by |-> by] >>
                \o logs
  IN IF Len(pushed) > MAX_LOGS THEN SubSeq(pushed, 1, Len(pushed) - 1)
     ELSE pushed

\* setTimeout runs a delay below 1 ms as 1 ms.
Delay(ms) == IF ms < 1 THEN 1 ELSE ms

-----------------------------------------------------------------------------
(* Running a timeline                                                      *)

Meta(c, t, i, item) ==
  [c |-> c, t |-> t, i |-> i, port |-> "", bytes |-> <<>>, opened |-> FALSE,
   kind |-> item.kind, loop |-> item.loop, ev |-> item.ev, idx |-> item.idx]

\* A mutation of Exec: a send that throws is taken as sent.
ExecSwallow(c, t, plan, pc, w) ==
  IF pc > Len(plan)
  THEN [tl |-> Timeline(plan, pc, "done", 0, ""), outs |-> w.outs, sent |-> w.sent]
  ELSE LET item == plan[pc] IN
    CASE item.type = "send" ->
           LET r == SendMessage(w, item.port, item.bytes, Meta(c, t, pc, item))
           IN [tl |-> Timeline(plan, pc + 1, "await", 0, ""),
               outs |-> r.outs, sent |-> r.sent]
      [] item.type = "wait" ->
           [tl |-> Timeline(plan, pc + 1, "timer", Delay(item.ms), ""),
            outs |-> w.outs, sent |-> w.sent]
      [] OTHER ->
           [tl |-> Timeline(plan, pc, "failed", 0, "type"),
            outs |-> w.outs, sent |-> w.sent]

\* Runs timeline t of call c from step pc up to its next await: a send
\* (which may throw), the start of a timer, or the end of the plan.
Exec(c, t, plan, pc, w) ==
  IF pc > Len(plan)
  THEN [tl |-> Timeline(plan, pc, "done", 0, ""), outs |-> w.outs, sent |-> w.sent]
  ELSE LET item == plan[pc] IN
    CASE item.type = "send" ->
           LET r == SendMessage(w, item.port, item.bytes, Meta(c, t, pc, item))
           IN IF r.ok
              THEN [tl |-> Timeline(plan, pc + 1, "await", 0, ""),
                    outs |-> r.outs, sent |-> r.sent]
              ELSE [tl |-> Timeline(plan, pc, "failed", 0, "open"),
                    outs |-> r.outs, sent |-> r.sent]
      [] item.type = "wait" ->
           [tl |-> Timeline(plan, pc + 1, "timer", Delay(item.ms), ""),
            outs |-> w.outs, sent |-> w.sent]
      [] OTHER ->
           [tl |-> Timeline(plan, pc, "failed", 0, "type"),
            outs |-> w.outs, sent |-> w.sent]

\* A mutation of RunTracks: only the first track is started by the handler,
\* every later track starts when a timer has run.
RunTracksOneByOne(c, req, k, w, acc) ==
  LET r == Exec(c, 1, TrackPlan(req, 1), 1, w)
  IN [tls |-> [t \in 1..Len(req.tracks[1]) |->
                 IF t = 1 THEN r.tl
                 ELSE Timeline(TrackPlan(req, t), 1, "timer", Quantum, "")],
      outs |-> r.outs, sent |-> r.sent]

\* args.tracks.map(async (track) => ...): each track runs, in order, up to
\* its first await before the handler goes on to Promise.all.
RECURSIVE RunTracks(_, _, _, _, _)
RunTracks(c, req, k, w, acc) ==
  IF k > Len(req.tracks[1]) THEN [tls |-> acc, outs |-> w.outs, sent |-> w.sent]
  ELSE LET r == Exec(c, k, TrackPlan(req, k), 1, w)
       IN RunTracks(c, req, k + 1, [outs |-> r.outs, sent |-> r.sent],
                    Append(acc, r.tl))

\* A mutation of CallStatusAfter: midi_play_note returns only when its
\* note-off has been sent.
CallStatusAfterAwaitOff(req, st, tl) ==
  IF IsSong(req) \/ st # "running" THEN st
  ELSE IF tl.mode = "failed" THEN "failed"
  ELSE IF tl.mode = "done" THEN "returned"
  ELSE st

\* A mutation of CallStatusAfter: every handler returns when it has set its
\* first timer.
CallStatusAfterAtTimer(req, st, tl) ==
  IF IsSong(req) \/ st # "running" THEN st
  ELSE IF tl.mode = "failed" THEN "failed"
  ELSE IF tl.mode \in {"timer", "done"} THEN "returned"
  ELSE st

\* A mutation of CallStatusAfter: a throw ends the call with its summary.
CallStatusAfterSwallow(req, st, tl) ==
  IF IsSong(req) \/ st # "running" THEN st
  ELSE IF tl.mode = "failed" THEN "returned"
  ELSE IF req.name = "midi_play_note"
  THEN (IF tl.mode = "timer" THEN "returned" ELSE st)
  ELSE IF tl.mode = "done" THEN "returned"
  ELSE st

\* The status of a call with one timeline once that timeline has run a
\* segment: a throw fails the call; midi_play_note returns when it has set
\* its timer; every other handler returns at the end of its plan.
CallStatusAfter(req, st, tl) ==
  IF IsSong(req) \/ st # "running" THEN st
  ELSE IF tl.mode = "failed" THEN "failed"
  ELSE IF req.name = "midi_play_note"
  THEN (IF tl.mode = "timer" THEN "returned" ELSE st)
  ELSE IF tl.mode = "done" THEN "returned"
  ELSE st

ErrorOf(tl) ==
  CASE tl.err = "open" ->
         "Failed to open MIDI output port: " \o tl.plan[tl.pc].port
    [] tl.err = "type" -> "TypeError"
    [] OTHER -> ""

\* The switch of the CallTool handler, up to the handler's first await.
Dispatch(c, req) ==
  LET w == [outs |-> activeOutputs, sent |-> sent] IN
  /\ UNCHANGED midiLogs
  /\ IF req.name \notin ToolNames
     THEN /\ call' = [call EXCEPT ![c] = [st |-> "failed", req |-> req,
                                          err |-> "Unknown tool", k |-> 0]]
          /\ UNCHANGED << tls, activeOutputs, sent >>
     ELSE IF req.name = "midi_list_ports"
     THEN /\ call' = [call EXCEPT ![c] = [st |-> "returned", req |-> req,
                                          err |-> "", k |-> 0]]
          /\ UNCHANGED << tls, activeOutputs, sent >>
     ELSE IF MissingArguments(req)
     THEN /\ call' = [call EXCEPT ![c] = [st |-> "failed", req |-> req,
                                          err |-> "Missing arguments",
                                          k |-> 0]]
          /\ UNCHANGED << tls, activeOutputs, sent >>
     ELSE IF IsSong(req)
     THEN LET r == RunTracks(c, req, 1, w, <<>>) IN
          /\ call' = [call EXCEPT ![c] = [st |-> "running", req |-> req,
                                          err |-> "", k |-> 0]]
          /\ tls' = [tls EXCEPT ![c] = r.tls]
          /\ activeOutputs' = r.outs
          /\ sent' = r.sent
     ELSE LET r == Exec(c, 1, PlanOf(req, 1), 1, w) IN
          /\ call' = [call EXCEPT ![c] =
                        [st |-> CallStatusAfter(req, "running", r.tl),
                         req |-> req, err |-> ErrorOf(r.tl), k |-> 0]]
          /\ tls' = [tls EXCEPT ![c] = << r.tl >>]
          /\ activeOutputs' = r.outs
          /\ sent' = r.sent

-----------------------------------------------------------------------------
(* The requests the clients of the model send                              *)

Req(name, port) == [BaseReq EXCEPT !.name = name, !.port = port]

ReqSendRaw == [Req("midi_send", Some("p1")) EXCEPT !.bytes = Some(<<144, 60, 100>>)]
ReqSendNoBytes == Req("midi_send", Some("p1"))
\* A system-exclusive message of six bytes (an identity request).
ReqSendSysEx ==
  [Req("midi_send", Some("p1")) EXCEPT
     !.bytes = Some(<<240, 126, 127, 6, 1, 247>>)]
ReqUnknown == Req("midi_reset", Some("p1"))
ReqListPorts == Req("midi_list_ports", None)
ReqNoteOn == [Req("midi_note_on", Some("p1")) EXCEPT !.note = Some(60)]
ReqNoteOnCh17 ==
  [Req("midi_note_on", Some("p1")) EXCEPT !.note = Some(60), !.channel = Some(17)]
ReqNoteOff == [Req("midi_note_off", Some("p1")) EXCEPT !.note = Some(60)]
ReqControlChange ==
  [Req("midi_control_change", Some("p1")) EXCEPT
     !.controller = Some(7), !.value = Some(100), !.channel = Some(16)]
ReqProgramChange ==
  [Req("midi_program_change", Some("p2")) EXCEPT !.program = Some(5)]
ReqPitchBend == [Req("midi_pitch_bend", Some("p1")) EXCEPT !.value = Some(0)]
ReqPlayNote == [Req("midi_play_note", Some("p1")) EXCEPT !.note = Some(60)]
ReqPlayNoteShort ==
  [Req("midi_play_note", Some("p1")) EXCEPT !.note = Some(60), !.duration = Some(250)]
ReqPlayNoteBadPort ==
  [Req("midi_play_note", Some("nope")) EXCEPT !.note = Some(60)]
ReqPlayChord ==
  [Req("midi_play_chord", Some("p1")) EXCEPT
     !.notes = Some(<<60, 64>>), !.velocity = Some(100), !.duration = Some(250)]
\* A chord on a port that does not open.
ReqPlayChordBadPort ==
  [Req("midi_play_chord", Some("nope")) EXCEPT !.notes = Some(<<60, 64>>)]
\* A chord whose second note is not a number.
ReqPlayChordNoNote ==
  [Req("midi_play_chord", Some("p1")) EXCEPT !.notes = Some(<<60, UNDEF>>)]
ReqPlaySequence ==
  [Req("midi_play_sequence", Some("p1")) EXCEPT
     !.items = Some(<< SeqNote(Some(60), None, Some(250)),
                      SeqNote(Some(62), Some(0), None) >>)]
ReqPlaySequenceNoNote ==
  [Req("midi_play_sequence", Some("p1")) EXCEPT
     !.items = Some(<< SeqNote(None, None, Some(250)) >>)]

\* Two tracks on the song's port and the default channel: A plays a
\* quarter note, B the same note for a half note.
ReqSongAB ==
  [Req("midi_play_song", Some("p1")) EXCEPT
     !.tracks = Some(<<
        Track(None, None, None, None,
              Some(<< NoteEvent(NoteNum(60), DurSym("quarter"), None, None) >>)),
        Track(None, None, None, None,
              Some(<< NoteEvent(NoteNum(60), DurSym("half"), None, None) >>)) >>)]

\* The longer track comes first and has its own port and channel; the
\* shorter one plays on the song's port.
ReqSongBA ==
  [Req("midi_play_song", Some("p1")) EXCEPT
     !.tracks = Some(<<
        Track(Some("p2"), Some(3), None, None,
              Some(<< NoteEvent(NoteArr(<<64, 67>>), DurSym("half"), None,
                                None) >>)),
        Track(None, None, None, None,
              Some(<< NoteEvent(NoteNum(60), DurSym("quarter"), None, None) >>)) >>)]

\* The first track names a port that does not open; the second sets an
\* instrument and loops a chord with a CC.
ReqSongBadTrack ==
  [Req("midi_play_song", Some("p1")) EXCEPT
     !.tracks = Some(<<
        Track(Some("nope"), None, None, None,
              Some(<< NoteEvent(NoteNum(60), DurSym("quarter"), None, None) >>)),
        Track(Some("p2"), Some(2), Some(5), Some(2),
              Some(<< NoteEvent(NoteArr(<<60, 64>>), DurSym("eighth"),
                                Some(100), Some(Cc(7, 100))) >>)) >>)]

\* One track with an instrument and no notes.
ReqSongNoNotes ==
  [Req("midi_play_song", Some("p1")) EXCEPT
     !.tracks = Some(<< Track(None, None, Some(5), None, None) >>)]

\* Two tracks on the song's port and the default channel, each with its
\* own instrument.
ReqSongTwoPrograms ==
  [Req("midi_play_song", Some("p1")) EXCEPT
     !.tracks = Some(<<
        Track(None, None, Some(5), None,
              Some(<< NoteEvent(NoteNum(60), DurSym("quarter"), None, None) >>)),
        Track(None, None, Some(40), None,
              Some(<< NoteEvent(NoteNum(72), DurSym("quarter"), None, None) >>)) >>)]

\* Two tracks, each on a port of its own that does not open.
ReqSongTwoBadTracks ==
  [Req("midi_play_song", Some("p1")) EXCEPT
     !.tracks = Some(<<
        Track(Some("nope"), None, None, None,
              Some(<< NoteEvent(NoteNum(60), DurSym("quarter"), None, None) >>)),
        Track(Some("gone"), None, None, None,
              Some(<< NoteEvent(NoteNum(72), DurSym("quarter"), None, None) >>)) >>)]

\* One track of two events, looped.
ReqSongLoop ==
  [Req("midi_play_song", Some("p1")) EXCEPT
     !.tracks = Some(<<
        Track(None, Some(10), Some(0), Some(MaxLoop),
              Some(<< NoteEvent(NoteNum(60), DurNum(1), None, Some(Cc(1, 0))),
                      NoteEvent(NoteArr(<<62, 65>>), DurSym("sixteenth"),
                                None, None) >>)) >>)]

Requests ==
  { ReqSendRaw, ReqSendNoBytes, ReqUnknown, ReqListPorts, ReqNoteOn,
    ReqNoteOnCh17, ReqNoteOff, ReqPlayNote, ReqPlayNoteShort, ReqPlayNoteBadPort,
    ReqPlayChord, ReqPlaySequence, ReqPlaySequenceNoNote, ReqSongAB,
    ReqSongBadTrack, ReqSongNoNotes, ReqSongLoop, ReqSongBA, ReqSendSysEx,
    ReqPlayChordBadPort, ReqPlayChordNoNote, ReqControlChange,
    ReqProgramChange, ReqPitchBend }

Calls == {1, 2}

-----------------------------------------------------------------------------
(* The event loop                                                          *)

\* A mutation of PromiseAllSettled: the promise waits for every track and
\* never settles when one has rejected.
PromiseAllResolved(c) ==
  \A t \in 1..Len(tls[c]) : tls[c][t].mode = "done"

\* A mutation of PromiseAllSettled: the promise settles with the first
\* track that settles.
PromiseAnySettled(c) ==
  \E t \in 1..Len(tls[c]) : tls[c][t].mode \in {"failed", "done"}

\* Promise.all(trackPromises) has settled: a track has rejected, or every
\* track has resolved.
PromiseAllSettled(c) ==
  \/ \E t \in 1..Len(tls[c]) : tls[c][t].mode = "failed"
  \/ \A t \in 1..Len(tls[c]) : tls[c][t].mode = "done"

JoinReady(c) ==
  /\ call[c].st = "running"
  /\ IsSong(call[c].req)
  /\ PromiseAllSettled(c)

\* A continuation is ready to run: timers wait for these.
MicrotaskReady ==
  \E c \in Calls :
    \/ \E t \in 1..Len(tls[c]) : tls[c][t].mode = "await"
    \/ JoinReady(c)
    \/ call[c].st \in {"gi_ret", "lp_ret", "listen", "gm_ret"}

Timers ==
  { ct \in Calls \X (1..4) :
      ct[2] <= Len(tls[ct[1]]) /\ tls[ct[1]][ct[2]].mode = "timer" }

\* A tool call arrives when the service is set up: `await getMidi()` returns
\* the service and the handler dispatches on the tool name.  Calls are
\* numbered in their order of arrival.
CallTool(c, req) ==
  /\ call[c].st = "idle"
  /\ \A b \in Calls : b < c => call[b].st # "idle"
  /\ midiService
  /\ Dispatch(c, req)
  /\ UNCHANGED serviceVars

\* The continuation of `await midi.sendMessage(...)`: logMidi of the message
\* sent, then the handler's code up to its next await.
Step(c, t) ==
  /\ t \in 1..Len(tls[c])
  /\ tls[c][t].mode = "await"
  /\ LET req == call[c].req
         tl == tls[c][t]
         plan == tl.plan
         prev == plan[tl.pc - 1]
     IN IF LogThrows(prev.bytes)
        THEN LET failed == Timeline(plan, tl.pc, "failed", 0, "type") IN
             /\ tls' = [tls EXCEPT ![c][t] = failed]
             /\ call' = [call EXCEPT
                  ![c].st = CallStatusAfter(req, call[c].st, failed),
                  ![c].err = IF /\ call[c].st # "failed"
                                /\ CallStatusAfter(req, call[c].st, failed) = "failed"
                             THEN ErrorOf(failed)
                             ELSE call[c].err]
             /\ UNCHANGED << midiLogs, activeOutputs, sent >>
        ELSE LET r == Exec(c, t, plan, tl.pc,
                           [outs |-> activeOutputs, sent |-> sent]) IN
             /\ midiLogs' = LogMidi(midiLogs, "OUT", prev.port, prev.bytes,
                                    << c, t, tl.pc - 1 >>)
             /\ tls' = [tls EXCEPT ![c][t] = r.tl]
             /\ call' = [call EXCEPT
                  ![c].st = CallStatusAfter(req, call[c].st, r.tl),
                  ![c].err = IF /\ call[c].st # "failed"
                                /\ CallStatusAfter(req, call[c].st, r.tl) = "failed"
                             THEN ErrorOf(r.tl)
                             ELSE call[c].err]
             /\ activeOutputs' = r.outs
             /\ sent' = r.sent
  /\ UNCHANGED serviceVars

\* A mutation of TimerFire: a timer fires before its delay has passed.
TimerFireEarly(c, t) ==
  /\ ~MicrotaskReady
  /\ t \in 1..Len(tls[c])
  /\ tls[c][t].mode = "timer"
  /\ LET req == call[c].req
         r == Exec(c, t, tls[c][t].plan, tls[c][t].pc,
                   [outs |-> activeOutputs, sent |-> sent])
     IN /\ tls' = [tls EXCEPT ![c][t] = r.tl]
        /\ call' = [call EXCEPT
             ![c].st = CallStatusAfter(req, call[c].st, r.tl),
             ![c].err = IF /\ call[c].st # "failed"
                           /\ CallStatusAfter(req, call[c].st, r.tl) = "failed"
                        THEN ErrorOf(r.tl)
                        ELSE call[c].err]
        /\ activeOutputs' = r.outs
        /\ sent' = r.sent
  /\ UNCHANGED << midiLogs, serviceVars >>

\* A timer whose delay has passed fires: the code after the wait runs up to
\* its next await.
TimerFire(c, t) ==
  /\ ~MicrotaskReady
  /\ t \in 1..Len(tls[c])
  /\ tls[c][t].mode = "timer"
  /\ tls[c][t].rem = 0
  /\ LET req == call[c].req
         r == Exec(c, t, tls[c][t].plan, tls[c][t].pc,
                   [outs |-> activeOutputs, sent |-> sent])
     IN /\ tls' = [tls EXCEPT ![c][t] = r.tl]
        /\ call' = [call EXCEPT
             ![c].st = CallStatusAfter(req, call[c].st, r.tl),
             ![c].err = IF /\ call[c].st # "failed"
                           /\ CallStatusAfter(req, call[c].st, r.tl) = "failed"
                        THEN ErrorOf(r.tl)
                        ELSE call[c].err]
        /\ activeOutputs' = r.outs
        /\ sent' = r.sent
  /\ UNCHANGED << midiLogs, serviceVars >>

\* Time passes while nothing is ready to run and no timer is due.
Elapse ==
  /\ ~MicrotaskReady
  /\ Timers # {}
  /\ \A ct \in Timers : tls[ct[1]][ct[2]].rem > 0
  /\ LET least == MinOf({ tls[ct[1]][ct[2]].rem : ct \in Timers })
         d == IF least < Quantum THEN least ELSE Quantum
     IN tls' = [c \in Calls |->
                 [t \in 1..Len(tls[c]) |->
                    IF tls[c][t].mode = "timer"
                    THEN [tls[c][t] EXCEPT !.rem = @ - d]
                    ELSE tls[c][t]]]
  /\ UNCHANGED << call, midiLogs, activeOutputs, sent, serviceVars >>

\* A mutation of Join: the first rejection cancels the tracks still running.
JoinCancelling(c) ==
  /\ JoinReady(c)
  /\ IF \E t \in 1..Len(tls[c]) : tls[c][t].mode = "failed"
     THEN /\ call' = [call EXCEPT ![c].st = "failed"]
          /\ tls' = [tls EXCEPT ![c] =
                       [t \in 1..Len(tls[c]) |->
                          IF tls[c][t].mode \in {"await", "timer"}
                          THEN [tls[c][t] EXCEPT !.mode = "failed"]
                          ELSE tls[c][t]]]
     ELSE /\ call' = [call EXCEPT ![c].st = "returned"]
          /\ UNCHANGED tls
  /\ UNCHANGED << midiLogs, activeOutputs, sent, serviceVars >>

\* `await Promise.all(trackPromises)` resumes: with the first rejection, or
\* with the summary when every track has resolved.
Join(c) ==
  /\ JoinReady(c)
  /\ IF \E t \in 1..Len(tls[c]) : tls[c][t].mode = "failed"
     THEN LET first == MinOf({ t \in 1..Len(tls[c]) : tls[c][t].mode = "failed" })
          IN call' = [call EXCEPT ![c].st = "failed",
                                  ![c].err = ErrorOf(tls[c][first])]
     ELSE call' = [call EXCEPT ![c].st = "returned"]
  /\ UNCHANGED << tls, midiLogs, activeOutputs, sent, serviceVars >>

-----------------------------------------------------------------------------
(* getMidi: setting up the service on the first calls                      *)

\* The loop of getMidi over the ports, from the k-th input port on, up to
\* its next await: the next port not in connectedInputs is listened to
\* (MidiService.listen opens it unless cached, and connects the callback);
\* when no port is left getMidi returns.
ListenLoop(c, k) ==
  LET rest == { j \in k..Len(InputPortList) :
                  InputPortList[j] \notin connectedInputs }
  IN IF rest = {}
     THEN /\ call' = [call EXCEPT ![c].st = "gm_ret"]
          /\ UNCHANGED << activeInputs, subs >>
     ELSE LET j == MinOf(rest) IN
          /\ call' = [call EXCEPT ![c].st = "listen", ![c].k = j]
          /\ activeInputs' = activeInputs \cup { InputPortList[j] }
          /\ subs' = [subs EXCEPT ![InputPortList[j]] = @ + 1]

\* A tool call arrives while midiService is unset: getMidi calls
\* MidiService.getInstance(), which creates the instance and awaits its
\* initialize(), or returns the instance that exists.
GetMidiEnter(c) ==
  /\ call[c].st = "idle"
  /\ \A b \in Calls : b < c => call[b].st # "idle"
  /\ ~midiService
  /\ instance' = TRUE
  /\ call' = [call EXCEPT ![c].st = IF instance THEN "gi_ret" ELSE "gi_init"]
  /\ UNCHANGED << tls, activeOutputs, activeInputs, midiLogs, sent, jzz,
                  midiService, initCount, connectedInputs, subs, received >>

\* `this.jzz = await JZZ()` of initialize() resumes.
InitializeDone(c) ==
  /\ call[c].st \in {"gi_init", "lp_init"}
  /\ jzz' = TRUE
  /\ initCount' = initCount + 1
  /\ call' = [call EXCEPT ![c].st = IF call[c].st = "gi_init" THEN "gi_ret"
                                    ELSE "lp_ret"]
  /\ UNCHANGED << tls, activeOutputs, activeInputs, midiLogs, sent, instance,
                  midiService, connectedInputs, subs, received >>

\* `midiService = await MidiService.getInstance()` resumes, and getMidi
\* calls listPorts(), which awaits initialize() when jzz is unset.
GetInstanceReturn(c) ==
  /\ call[c].st = "gi_ret"
  /\ midiService' = TRUE
  /\ call' = [call EXCEPT ![c].st = IF jzz THEN "lp_ret" ELSE "lp_init"]
  /\ UNCHANGED << tls, activeOutputs, activeInputs, midiLogs, sent, instance,
                  jzz, initCount, connectedInputs, subs, received >>

\* `await midiService.listPorts()` resumes and the loop over the ports starts.
ListPortsReturn(c) ==
  /\ call[c].st = "lp_ret"
  /\ ListenLoop(c, 1)
  /\ UNCHANGED << tls, activeOutputs, midiLogs, sent, instance, jzz,
                  midiService, initCount, connectedInputs, received >>

\* `await midiService.listen(...)` resumes: the port is added to
\* connectedInputs and the loop goes on.
ListenReturn(c) ==
  /\ call[c].st = "listen"
  /\ connectedInputs' = connectedInputs \cup { InputPortList[call[c].k] }
  /\ ListenLoop(c, call[c].k + 1)
  /\ UNCHANGED << tls, activeOutputs, midiLogs, sent, instance, jzz,
                  midiService, initCount, received >>

\* `await getMidi()` resumes in the CallTool handler, which dispatches.
GetMidiReturn(c, req) ==
  /\ call[c].st = "gm_ret"
  /\ Dispatch(c, req)
  /\ UNCHANGED serviceVars

\* The requests of the calls that set the service up.
BootRequests ==
  { ReqUnknown, ReqSendNoBytes, ReqListPorts, ReqSendRaw, ReqNoteOn,
    ReqProgramChange }

\* A process that has served no call yet.
InitBoot ==
  /\ call = [c \in Calls |-> IdleCall]
  /\ tls = [c \in Calls |-> <<>>]
  /\ activeOutputs = {}
  /\ activeInputs = {}
  /\ midiLogs = <<>>
  /\ sent = <<>>
  /\ instance = FALSE
  /\ jzz = FALSE
  /\ midiService = FALSE
  /\ initCount = 0
  /\ connectedInputs = {}
  /\ subs = [p \in InputPorts |-> 0]
  /\ received = 0

NextBoot ==
  \/ \E c \in Calls : GetMidiEnter(c)
  \/ \E c \in Calls : InitializeDone(c)
  \/ \E c \in Calls : GetInstanceReturn(c)
  \/ \E c \in Calls : ListPortsReturn(c)
  \/ \E c \in Calls : ListenReturn(c)
  \/ \E c \in Calls, req \in BootRequests : GetMidiReturn(c, req)
  \/ \E c \in Calls, req \in BootRequests : CallTool(c, req)
  \/ \E c \in Calls, t \in 1..4 : Step(c, t)

SpecBoot == InitBoot /\ [][NextBoot]_vars

\* Every sendMessage of the model runs with jzz set.
JzzSetAtSend == sent # <<>> => jzz

\* The process after the service has been set up by an earlier call.
Init ==
  /\ call = [c \in Calls |-> IdleCall]
  /\ tls = [c \in Calls |-> <<>>]
  /\ activeOutputs = {}
  /\ activeInputs = InputPorts
  /\ midiLogs = <<>>
  /\ sent = <<>>
  /\ instance = TRUE
  /\ jzz = TRUE
  /\ midiService = TRUE
  /\ initCount = 1
  /\ connectedInputs = InputPorts
  /\ subs = [p \in InputPorts |-> 1]
  /\ received = 0

Next ==
  \/ \E c \in Calls, req \in Requests : CallTool(c, req)
  \/ \E c \in Calls, t \in 1..4 : Step(c, t)
  \/ \E c \in Calls, t \in 1..4 : TimerFire(c, t)
  \/ Elapse
  \/ \E c \in Calls : Join(c)

Spec == Init /\ [][Next]_vars

\* The event loop does not stop while a continuation is ready or a timer is
\* pending: it runs the continuation, lets the time pass, fires the timer.
Progress ==
  \/ \E c \in Calls, t \in 1..4 : Step(c, t)
  \/ \E c \in Calls, t \in 1..4 : TimerFire(c, t)
  \/ Elapse
  \/ \E c \in Calls : Join(c)

Fairness == WF_vars(Progress)

\* The requests of the runs whose progress is checked.
LiveRequests ==
  { ReqPlayNote, ReqPlayNoteShort, ReqPlayNoteBadPort, ReqNoteOff,
    ReqSongBadTrack }

\* At most one of the calls of these runs is a song.
NextLive ==
  \/ \E c \in Calls, req \in LiveRequests :
       /\ IsSong(req) => \A b \in Calls : ~IsSong(call[b].req)
       /\ CallTool(c, req)
  \/ \E c \in Calls, t \in 1..4 : Step(c, t)
  \/ \E c \in Calls, t \in 1..4 : TimerFire(c, t)
  \/ Elapse
  \/ \E c \in Calls : Join(c)

FairSpec == Init /\ [][NextLive]_vars /\ Fairness

\* The requests of the runs in which plans are followed to their end.
PlanRequests ==
  { ReqPlayChord, ReqPlayChordBadPort, ReqPlayChordNoNote, ReqPlaySequence,
    ReqPlaySequenceNoNote, ReqSongBA, ReqSongBadTrack, ReqSongLoop }

\* Two calls that play plans; at most one of them is a song.
NextPlans ==
  \/ \E c \in Calls, req \in PlanRequests :
       /\ IsSong(req) => \A b \in Calls : ~IsSong(call[b].req)
       /\ CallTool(c, req)
  \/ \E c \in Calls, t \in 1..4 : Step(c, t)
  \/ \E c \in Calls, t \in 1..4 : TimerFire(c, t)
  \/ Elapse
  \/ \E c \in Calls : Join(c)

FairSpecPlans == Init /\ [][NextPlans]_vars /\ Fairness

-----------------------------------------------------------------------------
(* MIDI input                                                              *)

\* The messages the input devices of the model send.
InputMessages == { << 144, 60, 100 >> }

\* One message reaches k callbacks connected to port p: each runs
\* logMidi('IN', port.name, data).  The entry is tagged with the number of
\* the message and of the callback.
RECURSIVE Callbacks(_, _, _, _, _)
Callbacks(logs, p, data, n, k) ==
  IF k = 0 THEN logs
  ELSE LogMidi(Callbacks(logs, p, data, n, k - 1), "IN", p, data, << 0, k, n >>)

\* An input port delivers a message: every callback connected to it runs.
MidiIn(p, msg) ==
  /\ received < MaxReceived
  /\ subs[p] > 0
  /\ received' = received + 1
  /\ midiLogs' = Callbacks(midiLogs, p, msg, received + 1, subs[p])
  /\ UNCHANGED << call, tls, activeOutputs, activeInputs, sent, instance, jzz,
                  midiService, initCount, connectedInputs, subs >>

\* The runs in which the inputs fill the log.
NextLog == \E p \in InputPorts, msg \in InputMessages : MidiIn(p, msg)

SpecLog == Init /\ [][NextLog]_vars

-----------------------------------------------------------------------------
(* The codec over its inputs                                               *)

Channels == 1..16
DataValues == {0, 1, 64, 127}
BendValues == -8192..8191
BendSamples == {-8192, -8191, -129, -128, -127, -1, 0, 1, 127, 128, 8190, 8191}

NoteRequests ==
  { [Req(name, Some("p1")) EXCEPT
       !.note = Some(n), !.velocity = Some(v), !.channel = Some(ch)] :
      name \in {"midi_note_on", "midi_note_off"}, n \in DataValues,
      v \in DataValues, ch \in Channels }

ControlChangeRequests ==
  { [Req("midi_control_change", Some("p1")) EXCEPT
       !.controller = Some(k), !.value = Some(v), !.channel = Some(ch)] :
      k \in DataValues, v \in DataValues, ch \in Channels }

ProgramChangeRequests ==
  { [Req("midi_program_change", Some("p1")) EXCEPT
       !.program = Some(n), !.channel = Some(ch)] :
      n \in DataValues, ch \in Channels }

\* Every bend value on the first and the last channel, and the values at
\* the edges of the 7-bit groups on every channel.
PitchBendRequests ==
  { [Req("midi_pitch_bend", Some("p1")) EXCEPT
       !.value = Some(v), !.channel = Some(ch)] :
      v \in BendValues, ch \in {1, 16} }
  \cup
  { [Req("midi_pitch_bend", Some("p1")) EXCEPT
       !.value = Some(v), !.channel = Some(ch)] :
      v \in BendSamples, ch \in Channels }

CodecRequests ==
  NoteRequests \cup ControlChangeRequests \cup ProgramChangeRequests
  \cup PitchBendRequests

\* One call of a codec operation, from its dispatch to its return.
NextCodec ==
  \/ /\ call[1].st = "idle"
     /\ \E req \in CodecRequests : CallTool(1, req)
  \/ Step(1, 1)

SpecCodec == Init /\ [][NextCodec]_vars

-----------------------------------------------------------------------------
(* The read surfaces                                                       *)

\* request.params of a resources/read request.
ReadReq(uri) == [BaseReq EXCEPT !.name = "resources/read", !.port = Some(uri)]

\* The resources of the server that are not midi://ports.
StaticResources ==
  {"midi://logs", "midi://reference/notes", "midi://reference/controllers",
   "midi://reference/general-midi"}

Uris == StaticResources \cup {"midi://ports", "midi://nothing"}

\* The ReadResource handler for a uri other than midi://ports: midi://logs
\* returns the log ring joined, a reference table is computed from
\* constants, any other uri throws; none of them calls getMidi.
ReadResource(c, uri) ==
  /\ call[c].st = "idle"
  /\ \A b \in Calls : b < c => call[b].st # "idle"
  /\ uri # "midi://ports"
  /\ call' = [call EXCEPT ![c] =
       IF uri \in StaticResources
       THEN [st |-> "returned", req |-> ReadReq(uri), err |-> "", k |-> 0]
       ELSE [st |-> "failed", req |-> ReadReq(uri),
             err |-> "Resource not found", k |-> 0]]
  /\ UNCHANGED << tls, midiLogs, activeOutputs, sent, serviceVars >>

\* midi://ports when the service is set up: getMidi returns it, listPorts
\* reads the ports of jzz.info().
ReadPorts(c) ==
  /\ call[c].st = "idle"
  /\ \A b \in Calls : b < c => call[b].st # "idle"
  /\ midiService
  /\ call' = [call EXCEPT ![c] = [st |-> "returned",
                                  req |-> ReadReq("midi://ports"),
                                  err |-> "", k |-> 0]]
  /\ UNCHANGED << tls, midiLogs, activeOutputs, sent, serviceVars >>

\* `await getMidi()` resumes in the ReadResource handler of midi://ports.
ReadPortsReturn(c) ==
  /\ call[c].st = "gm_ret"
  /\ call' = [call EXCEPT ![c] = [st |-> "returned",
                                  req |-> ReadReq("midi://ports"),
                                  err |-> "", k |-> 0]]
  /\ UNCHANGED << tls, midiLogs, activeOutputs, sent, serviceVars >>

\* The tool calls that run beside the reads.
ReadRequests == { ReqListPorts, ReqNoteOn, ReqProgramChange }

\* A process that has served no call yet takes reads and tool calls, and
\* its inputs deliver messages.
NextRead ==
  \/ \E c \in Calls : GetMidiEnter(c)
  \/ \E c \in Calls : InitializeDone(c)
  \/ \E c \in Calls : GetInstanceReturn(c)
  \/ \E c \in Calls : ListPortsReturn(c)
  \/ \E c \in Calls : ListenReturn(c)
  \/ \E c \in Calls, req \in ReadRequests : GetMidiReturn(c, req)
  \/ \E c \in Calls : ReadPortsReturn(c)
  \/ \E c \in Calls, req \in ReadRequests : CallTool(c, req)
  \/ \E c \in Calls : ReadPorts(c)
  \/ \E c \in Calls, uri \in Uris : ReadResource(c, uri)
  \/ \E c \in Calls, t \in 1..4 : Step(c, t)
  \/ /\ received < 2
     /\ \E q \in InputPorts, msg \in InputMessages : MidiIn(q, msg)

SpecRead == InitBoot /\ [][NextRead]_vars

-----------------------------------------------------------------------------
(* One call over the optional fields and the durations                     *)

\* A tempo: none given, or one of the declared range.
BpmOptions == {None} \cup { Some(b) : b \in 20..300 }

\* A duration of a song event: a count of beats, one of the five names,
\* another string, or none.
DurationOptions ==
  { DurNum(1), DurNum(2), DurNum(3), DurSym("whole"), DurSym("half"),
    DurSym("quarter"), DurSym("eighth"), DurSym("sixteenth"),
    DurSym("dotted"), DurSym(""), DurMissing }

\* A song of one track that plays one note once.
TimingRequests ==
  { [Req("midi_play_song", Some("p1")) EXCEPT
       !.bpm = bpm,
       !.tracks = Some(<< Track(None, None, None, None,
                                Some(<< NoteEvent(NoteNum(60), d, None, None) >>)) >>)] :
      bpm \in BpmOptions, d \in DurationOptions }

VelocityOptions == {None, Some(0), Some(100)}
ChannelOptions == {None, Some(0), Some(1), Some(5)}
MillisOptions == {None, Some(0), Some(250)}

\* The note operations with each optional field omitted, given as 0 where 0
\* is in its range, and given otherwise.
DefaultRequests ==
  { [Req(name, Some("p1")) EXCEPT
       !.note = Some(60), !.velocity = v, !.channel = ch] :
      name \in {"midi_note_on", "midi_note_off"},
      v \in VelocityOptions, ch \in ChannelOptions }
  \cup
  { [Req("midi_play_note", Some("p1")) EXCEPT
       !.note = Some(60), !.velocity = v, !.channel = ch, !.duration = d] :
      v \in VelocityOptions, ch \in ChannelOptions, d \in MillisOptions }
  \cup
  { [Req("midi_play_chord", Some("p1")) EXCEPT
       !.notes = Some(<< 60, 64 >>), !.velocity = v, !.channel = ch,
       !.duration = d] :
      v \in VelocityOptions, ch \in ChannelOptions, d \in MillisOptions }
  \cup
  { [Req("midi_play_sequence", Some("p1")) EXCEPT
       !.items = Some(<< SeqNote(Some(60), v, d) >>), !.channel = ch] :
      v \in VelocityOptions, ch \in ChannelOptions, d \in MillisOptions }
  \cup
  { [Req("midi_play_song", Some("p1")) EXCEPT
       !.bpm = bpm,
       !.tracks = Some(<< Track(None, ch, None, None,
                                Some(<< NoteEvent(NoteNum(60), DurSym("quarter"),
                                                  v, None) >>)) >>)] :
      bpm \in {None, Some(60)}, v \in VelocityOptions, ch \in ChannelOptions }

OneCallRequests ==
  TimingRequests \cup DefaultRequests
    \cup {ReqSongTwoPrograms, ReqSongTwoBadTracks}

\* One call, from its dispatch to its end.
NextOneCall ==
  \/ /\ call[1].st = "idle"
     /\ \E req \in OneCallRequests : CallTool(1, req)
  \/ \E t \in 1..2 : Step(1, t)
  \/ \E t \in 1..2 : TimerFire(1, t)
  \/ Elapse
  \/ Join(1)

SpecOneCall == Init /\ [][NextOneCall]_vars

-----------------------------------------------------------------------------
(* Properties                                                              *)

\* The handler of call c has run its switch.
Dispatched(c) == call[c].st \in {"running", "returned", "failed"}

\* The deliveries of timeline t of call c, and of call c, in order.
SentBy(c, t) == SelectSeq(sent, LAMBDA e : e.c = c /\ e.t = t)
SentByCall(c) == SelectSeq(sent, LAMBDA e : e.c = c)
LoggedByCall(c) == SelectSeq(midiLogs, LAMBDA e : e.by[1] = c)

SendsOf(plan) == SelectSeq(plan, LAMBDA item : item.type = "send")

\* The port and bytes of each element, in order.
Wire(es) == [i \in 1..Len(es) |-> << es[i].port, es[i].bytes >>]

\* The message kind a status byte stands for on the wire: its high nibble.
HighNibble(e) == e.bytes[1] \div 16
LowNibble(e) == e.bytes[1] % 16

\* Where a delivery of a song track stands in the track's event loop: the
\* program change first, then per loop and event the CC, the note-ons, the
\* note-offs.
Phase(e) ==
  CASE HighNibble(e) = 12 -> 0
    [] HighNibble(e) = 11 -> 1
    [] HighNibble(e) = 9 -> 2
    [] HighNibble(e) = 8 -> 3
    [] OTHER -> 4

Before(a, b) ==
  \/ a.loop < b.loop
  \/ a.loop = b.loop /\ a.ev < b.ev
  \/ a.loop = b.loop /\ a.ev = b.ev /\ Phase(a) < Phase(b)
  \/ a.loop = b.loop /\ a.ev = b.ev /\ Phase(a) = Phase(b) /\ a.idx < b.idx

\* C1: the deliveries of one song track follow the declared order: loop by
\* loop, event by event, and within an event the CC, then every note-on,
\* then every note-off; nothing of a later event precedes an earlier
\* event's last note-off.
C1_TrackOrder ==
  \A i, j \in 1..Len(sent) :
    ( /\ i < j
      /\ sent[i].c = sent[j].c
      /\ sent[i].t = sent[j].t
      /\ IsSong(call[sent[i].c].req) )
    => Before(sent[i], sent[j])

\* A looped track of two events (one with a CC, one a chord) has sent the
\* last note-off of its last loop.
C1_Witness ==
  \E i \in 1..Len(sent) :
    /\ call[sent[i].c].req = ReqSongLoop
    /\ sent[i].loop = MaxLoop /\ sent[i].ev = 2
    /\ HighNibble(sent[i]) = 8 /\ sent[i].idx = 2

\* The calls whose timelines pair a note-on with its note-off.
Playback(c) ==
  call[c].req.name \in {"midi_play_note", "midi_play_chord",
                        "midi_play_sequence", "midi_play_song"}

NoteKey(e) == << e.port, LowNibble(e), e.bytes[2] >>

\* Before delivery j, timeline (c, t) has sent a note-on for key that it has
\* not yet followed by its note-off.
Sounding(c, t, key, j) ==
  Cardinality({ i \in 1..(j - 1) :
                  /\ sent[i].c = c /\ sent[i].t = t
                  /\ sent[i].kind = "on" /\ NoteKey(sent[i]) = key })
  > Cardinality({ i \in 1..(j - 1) :
                    /\ sent[i].c = c /\ sent[i].t = t
                    /\ sent[i].kind = "off" /\ NoteKey(sent[i]) = key })

\* C2: no playback call or track sends a note-off for a (port, channel,
\* note) while another playback call or track has that note sounding, that
\* is, is between its own note-on and note-off for it.
C2_NoForeignNoteOff ==
  \A j \in 1..Len(sent) :
    (sent[j].kind = "off" /\ Playback(sent[j].c)) =>
      \A c \in Calls, t \in 1..4 :
        (Playback(c) /\ << c, t >> # << sent[j].c, sent[j].t >>)
        => ~Sounding(c, t, NoteKey(sent[j]), j)

\* C3: a song call has returned its summary only when every track has run
\* its whole plan: each track is at its end and has delivered every message
\* of every loop.
C3_SongReturnsAfterAllTracks ==
  \A c \in Calls :
    (IsSong(call[c].req) /\ call[c].st = "returned") =>
      /\ Len(tls[c]) = Len(call[c].req.tracks[1])
      /\ \A t \in 1..Len(tls[c]) :
           /\ tls[c][t].mode = "done"
           /\ Wire(SentBy(c, t)) = Wire(SendsOf(TrackPlan(call[c].req, t)))

\* The two-track song has returned.
C3_Witness ==
  \E c \in Calls : call[c].req = ReqSongAB /\ call[c].st = "returned"

\* C4: a song call has completed with a failure only when no track has
\* anything left to send: every track has ended or failed.
C4_FailureOnlyAfterJoin ==
  \A c \in Calls :
    (IsSong(call[c].req) /\ call[c].st = "failed") =>
      \A t \in 1..Len(tls[c]) : tls[c][t].mode \in {"done", "failed"}

\* Every send of track t of call c goes to a port that opens and nothing in
\* its plan throws.
TrackCanSucceed(c, t) ==
  LET plan == TrackPlan(call[c].req, t) IN
  \A i \in 1..Len(plan) :
    /\ plan[i].type # "throw"
    /\ plan[i].type = "send" =>
         (plan[i].port \in OutputPorts /\ ~LogThrows(plan[i].bytes))

SiblingFailedToOpen(c, t) ==
  \E u \in 1..Len(tls[c]) :
    u # t /\ tls[c][u].mode = "failed" /\ tls[c][u].err = "open"

TrackComplete(c, t) ==
  /\ tls[c][t].mode = "done"
  /\ Wire(SentBy(c, t)) = Wire(SendsOf(TrackPlan(call[c].req, t)))

SongTrack(c, t) ==
  IsSong(call[c].req) /\ Dispatched(c) /\ t \in 1..Len(tls[c])

\* C5: when a track of a song has failed to open its port, every sibling
\* track whose own sends succeed goes on to deliver its whole plan, every
\* loop, in order.
C5_SiblingsRunToTheEnd ==
  \A c \in Calls, t \in 1..2 :
    (SongTrack(c, t) /\ SiblingFailedToOpen(c, t) /\ TrackCanSucceed(c, t))
    ~> (SongTrack(c, t) /\ TrackComplete(c, t))

\* A track has delivered its whole plan beside a track that failed to open.
C5_Witness ==
  \E c \in Calls, t \in 1..2 :
    /\ SongTrack(c, t) /\ SiblingFailedToOpen(c, t)
    /\ TrackComplete(c, t) /\ Len(SentBy(c, t)) > 2

\* The request lacks a field its operation requires.
LacksRequired(req) ==
  \/ req.port = None
  \/ req.name = "midi_send" /\ req.bytes = None
  \/ req.name \in {"midi_note_on", "midi_note_off", "midi_play_note"}
       /\ req.note = None
  \/ req.name = "midi_control_change"
       /\ (req.controller = None \/ req.value = None)
  \/ req.name = "midi_program_change" /\ req.program = None
  \/ req.name = "midi_pitch_bend" /\ req.value = None
  \/ req.name = "midi_play_sequence"
       /\ \/ req.items \in {None, Some(<<>>)}
          \/ \E i \in 1..Len(req.items[1]) : req.items[1][i].note = None
  \/ req.name = "midi_play_chord" /\ req.notes \in {None, Some(<<>>)}
  \/ req.name = "midi_play_song"
       /\ \/ req.tracks \in {None, Some(<<>>)}
          \/ \E k \in 1..Len(req.tracks[1]) : req.tracks[1][k].notes = None

\* C6: a request that lacks a required field fails, delivers no message and
\* logs nothing.
C6_MissingFieldSendsNothing ==
  \A c \in Calls :
    (Dispatched(c) /\ call[c].req.name \in ToolNames
     /\ call[c].req.name # "midi_list_ports" /\ LacksRequired(call[c].req))
    => /\ call[c].st = "failed"
       /\ SentByCall(c) = <<>>
       /\ LoggedByCall(c) = <<>>

Given(o, lo, hi) == o # None /\ (o[1] < lo \/ o[1] > hi)

\* The request carries a field outside its declared range.
OutOfRange(req) ==
  \/ Given(req.channel, 1, 16)
  \/ Given(req.note, 0, 127)
  \/ Given(req.velocity, 0, 127)
  \/ Given(req.controller, 0, 127)
  \/ Given(req.program, 0, 127)
  \/ req.name = "midi_control_change" /\ Given(req.value, 0, 127)
  \/ req.name = "midi_pitch_bend" /\ Given(req.value, -8192, 8191)
  \/ Given(req.bpm, 20, 300)
  \/ req.bytes # None
       /\ \E i \in 1..Len(req.bytes[1]) :
            req.bytes[1][i] < 0 \/ req.bytes[1][i] > 255
  \/ req.tracks # None
       /\ \E k \in 1..Len(req.tracks[1]) :
            \/ Given(req.tracks[1][k].channel, 1, 16)
            \/ Given(req.tracks[1][k].instrument, 0, 127)
            \/ Given(req.tracks[1][k].loop, 1, 1000000)

\* C7: a request with a field outside its declared range fails and delivers
\* no message.
C7_OutOfRangeSendsNothing ==
  \A c \in Calls :
    (Dispatched(c) /\ OutOfRange(call[c].req))
    => (call[c].st = "failed" /\ SentByCall(c) = <<>>)

\* C8: when the only call made so far has failed its validation or named an
\* unknown operation, the port registry is as the process started it: the
\* MIDI subsystem is not initialised, no port is open and no input is
\* subscribed.
C8_FailedCallLeavesRegistry ==
  \A c \in Calls :
    ( /\ call[c].st = "failed"
      /\ call[c].err \in {"Unknown tool", "Missing arguments"}
      /\ \A b \in Calls \ {c} : call[b].st = "idle" )
    => /\ ~instance /\ ~jzz /\ ~midiService /\ initCount = 0
       /\ activeInputs = {} /\ activeOutputs = {} /\ connectedInputs = {}
       /\ \A p \in InputPorts : subs[p] = 0

KindNibble(kind) ==
  CASE kind = "on" -> 9
    [] kind = "off" -> 8
    [] kind = "cc" -> 11
    [] kind = "pc" -> 12
    [] kind = "bend" -> 14
    [] OTHER -> 0

\* C9: every status byte the note, CC, program-change and pitch-bend
\* operations deliver has the high nibble of its message kind (0x9 note-on,
\* 0x8 note-off, 0xB CC, 0xC program change, 0xE pitch bend) and the
\* internal channel 0..15 as its low nibble.
C9_StatusKeepsKind ==
  \A i \in 1..Len(sent) :
    sent[i].kind \in {"on", "off", "cc", "pc", "bend"} =>
      /\ HighNibble(sent[i]) = KindNibble(sent[i].kind)
      /\ sent[i].bytes[1] >= 0

PlayNoteOns(c) == SelectSeq(sent, LAMBDA e : e.c = c /\ e.kind = "on")
PlayNoteOffs(c) == SelectSeq(sent, LAMBDA e : e.c = c /\ e.kind = "off")

\* The one note-off of a midi_play_note call, matching its note-on.
OneNoteOff(c) ==
  /\ Len(PlayNoteOns(c)) = 1
  /\ Len(PlayNoteOffs(c)) = 1
  /\ PlayNoteOffs(c)[1].port = PlayNoteOns(c)[1].port
  /\ PlayNoteOffs(c)[1].bytes[1] = PlayNoteOns(c)[1].bytes[1] - 16
  /\ PlayNoteOffs(c)[1].bytes[2] = PlayNoteOns(c)[1].bytes[2]

C10_ReturnsBeforeNoteOff ==
  \A c \in Calls :
    call[c].req.name = "midi_play_note" =>
      /\ Len(PlayNoteOffs(c)) <= 1
      /\ PlayNoteOffs(c) # <<>> => (call[c].st = "returned" /\ OneNoteOff(c))
      /\ call[c].st = "returned" => Len(PlayNoteOns(c)) = 1

\* C10: midi_play_note returns after its note-on and before its note-off:
\* whenever its note-off has been delivered the call has already returned;
\* and once the note-on is delivered, exactly one note-off for the same
\* port, channel and note follows.
C10_PlayNoteFireAndContinue ==
  /\ []C10_ReturnsBeforeNoteOff
  /\ \A c \in Calls :
       (call[c].req.name = "midi_play_note" /\ PlayNoteOns(c) # <<>>)
       ~> (call[c].req.name = "midi_play_note" /\ OneNoteOff(c))

\* A midi_play_note call has returned and its note-off is still to come.
C10_Witness ==
  \E c \in Calls :
    /\ call[c].req.name = "midi_play_note"
    /\ call[c].st = "returned"
    /\ PlayNoteOns(c) # <<>> /\ PlayNoteOffs(c) = <<>>

\* The calls of midi_play_sequence and midi_play_chord.
PlanCall(c) ==
  call[c].req.name \in {"midi_play_sequence", "midi_play_chord"}

\* Every note-on call c has delivered is followed by a note-off of the call
\* for the same port, channel and note, and the call has delivered as many
\* note-offs as note-ons.
AllNotesOff(c) ==
  /\ \A i \in 1..Len(sent) :
       (sent[i].c = c /\ sent[i].kind = "on") =>
         \E j \in (i + 1)..Len(sent) :
           /\ sent[j].c = c /\ sent[j].kind = "off"
           /\ NoteKey(sent[j]) = NoteKey(sent[i])
  /\ Len(PlayNoteOns(c)) = Len(PlayNoteOffs(c))

C11_ReturnedAfterPlan ==
  \A c \in Calls :
    (PlanCall(c) /\ call[c].st = "returned") =>
      /\ PlayNoteOns(c) # <<>>
      /\ AllNotesOff(c)
      /\ Wire(SentByCall(c)) = Wire(SendsOf(PlanOf(call[c].req, 1)))

C11_SilentAfterReturn ==
  \A c \in Calls :
    (PlanCall(c) /\ call[c].st = "returned") => SentByCall(c)' = SentByCall(c)

\* C11: when a midi_play_sequence or midi_play_chord call has returned, its
\* whole plan has run: every note-on it delivered has been followed by its
\* note-off; and the call delivers no message after it has returned.
C11_PlanRunsBeforeReturn ==
  /\ []C11_ReturnedAfterPlan
  /\ [][C11_SilentAfterReturn]_vars

\* A sequence call and a chord call have both returned.
C11_Witness ==
  \E c, d \in Calls :
    /\ call[c].req = ReqPlaySequence /\ call[c].st = "returned"
    /\ call[d].req = ReqPlayChord /\ call[d].st = "returned"
    /\ Len(SentByCall(c)) = 4 /\ Len(SentByCall(d)) = 4

\* A call of tool `name` whose handler is running or has returned.
Accepted(c, name) ==
  call[c].req.name = name /\ call[c].st \in {"running", "returned"}

\* Some pending timer gets closer to its deadline in this step: time passes.
TimePasses ==
  \E c \in Calls, t \in 1..4 :
    /\ t <= Len(tls[c]) /\ t <= Len(tls'[c])
    /\ tls[c][t].mode = "timer" /\ tls'[c][t].mode = "timer"
    /\ tls'[c][t].rem < tls[c][t].rem

\* The messages of a chord as the request gives them: a note-on per note in
\* the order of the notes, then a note-off per note in the same order, all
\* on the request's port, channel and velocity.
ChordWire(req) ==
  LET notes == req.notes[1]
      ch == Coalesce(req.channel, 1)
      vel == Coalesce(req.velocity, 64)
  IN [i \in 1..Len(notes) |-> << req.port[1], << 144 + ch - 1, notes[i], vel >> >>]
     \o [i \in 1..Len(notes) |-> << req.port[1], << 128 + ch - 1, notes[i], vel >> >>]

C12_ChordShape ==
  \A c \in Calls :
    Accepted(c, "midi_play_chord") =>
      LET req == call[c].req
          n == Len(req.notes[1])
          w == Wire(SentByCall(c))
          tl == tls[c][1]
      IN /\ Len(w) <= 2 * n
         /\ w = SubSeq(ChordWire(req), 1, Len(w))
         /\ Len(w) < n => tl.mode = "await"
         /\ tl.mode = "timer" =>
              (Len(w) = n /\ tl.rem <= Coalesce(req.duration, 500))
         /\ Len(w) > n => tl.mode \in {"await", "done"}
         /\ call[c].st = "returned" => Len(w) = 2 * n

C12_ChordTiming ==
  \A c \in Calls :
    Accepted(c, "midi_play_chord") =>
      LET req == call[c].req
          n == Len(req.notes[1])
      IN \* no time passes while a send of the call is awaited
         /\ tls[c][1].mode = "await" => ~TimePasses
         \* the one wait starts with the chord's duration
         /\ (tls[c][1].mode # "timer" /\ tls'[c][1].mode = "timer") =>
              tls'[c][1].rem = Coalesce(req.duration, 500)
         \* the first note-off follows the end of the wait
         /\ (Len(SentByCall(c)) = n /\ Len(SentByCall(c)') > n) =>
              (tls[c][1].mode = "timer" /\ tls[c][1].rem = 0)

\* C12: midi_play_chord with N notes delivers N note-ons in the order of
\* the notes with no time passing between them, then waits once for the
\* chord's duration, then delivers N note-offs in the same order; every
\* message has the call's channel and velocity.
C12_ChordOnsWaitOffs ==
  /\ []C12_ChordShape
  /\ [][C12_ChordTiming]_vars

\* A chord of two notes has returned after its four messages.
C12_Witness ==
  \E c \in Calls :
    /\ call[c].req = ReqPlayChord /\ call[c].st = "returned"
    /\ Len(SentByCall(c)) = 2 * Len(ReqPlayChord.notes[1])
    /\ Len(ReqPlayChord.notes[1]) >= 2

\* The messages of a sequence as the request gives them: per note, in the
\* order of the notes, its note-on and then its note-off.
SequenceWire(req) ==
  LET notes == req.items[1]
      ch == Coalesce(req.channel, 1)
      msg(j) ==
        LET i == (j + 1) \div 2
            status == IF j % 2 = 1 THEN 144 ELSE 128
        IN << req.port[1],
              << status + ch - 1, notes[i].note[1],
                 Coalesce(notes[i].velocity, 64) >> >>
  IN [j \in 1..(2 * Len(notes)) |-> msg(j)]

\* The duration the request gives note i of a sequence.
NoteDuration(req, i) ==
  IF req.items[1][i].duration = None THEN 500 ELSE req.items[1][i].duration[1]

\* The time the timers of a timeline have run to their end, in ms.
RECURSIVE WaitedUpTo(_, _)
WaitedUpTo(tl, i) ==
  IF i = 0 THEN 0
  ELSE WaitedUpTo(tl, i - 1)
       + (IF tl.plan[i].type = "wait" /\ (i < tl.pc - 1 \/ tl.mode # "timer")
          THEN tl.plan[i].ms ELSE 0)

Waited(tl) == WaitedUpTo(tl, tl.pc - 1)

\* Every note of the request is given.
NotesGiven(req) ==
  \A i \in 1..Len(req.items[1]) : req.items[1][i].note # None

C13_SequenceShape ==
  \A c \in Calls :
    (Accepted(c, "midi_play_sequence") /\ NotesGiven(call[c].req)) =>
      LET req == call[c].req
          k == Len(req.items[1])
          w == Wire(SentByCall(c))
          tl == tls[c][1]
      IN /\ Len(w) <= 2 * k
         /\ w = SubSeq(SequenceWire(req), 1, Len(w))
         /\ Len(PlayNoteOns(c)) - Len(PlayNoteOffs(c)) \in {0, 1}
         /\ tl.mode = "timer" =>
              /\ Len(w) % 2 = 1
              /\ tl.rem <= NoteDuration(req, (Len(w) + 1) \div 2)
         /\ call[c].st = "returned" =>
              /\ Len(w) = 2 * k
              /\ TotalDuration(req, k) = Waited(tl)
              /\ \A i \in 1..k :
                   TotalDuration(req, i) - TotalDuration(req, i - 1)
                     = NoteDuration(req, i)

C13_SequenceTiming ==
  \A c \in Calls :
    (Accepted(c, "midi_play_sequence") /\ NotesGiven(call[c].req)) =>
      LET req == call[c].req
          sentNow == Len(SentByCall(c))
      IN \* no time passes while a send of the call is awaited
         /\ tls[c][1].mode = "await" => ~TimePasses
         \* the wait of note i starts with the duration of note i
         /\ (tls[c][1].mode # "timer" /\ tls'[c][1].mode = "timer") =>
              tls'[c][1].rem = NoteDuration(req, (sentNow + 1) \div 2)
         \* a note-off follows the end of its note's wait
         /\ (sentNow % 2 = 1 /\ Len(SentByCall(c)') > sentNow) =>
              (tls[c][1].mode = "timer" /\ tls[c][1].rem = 0)

\* C13: midi_play_sequence plays its notes one after another: the
\* deliveries are on(n1), off(n1), on(n2), off(n2), ..., so at most one note
\* of the call sounds at a time; the wait of each note is that note's
\* duration (500 when none is given); and the total the result reports is
\* the sum of the notes' durations.
C13_SequenceOneByOne ==
  /\ []C13_SequenceShape
  /\ [][C13_SequenceTiming]_vars

\* The sequence of a 250 ms note and a note of the default duration has
\* returned, reporting 750 ms.
C13_Witness ==
  \E c \in Calls :
    /\ call[c].req = ReqPlaySequence /\ call[c].st = "returned"
    /\ Len(SentByCall(c)) = 4
    /\ TotalDuration(call[c].req, 2) = 750
    /\ Waited(tls[c][1]) = 750

\* A song of two tracks, each playing one event once, whose sends all go to
\* ports that open.
TwoSingleEventTracks(req) ==
  /\ IsSong(req) /\ req.tracks # None /\ Len(req.tracks[1]) = 2
  /\ \A k \in 1..2 :
       LET track == req.tracks[1][k] IN
       /\ track.notes # None /\ Len(track.notes[1]) = 1
       /\ Coalesce(track.loop, 1) = 1
       /\ Coalesce(track.port, req.port[1]) \in OutputPorts

\* The length in ms of the one event of track k.
EventMs(req, k) ==
  Millis(GetDuration(req.tracks[1][k].notes[1][1].duration,
                     BeatDuration(Coalesce(req.bpm, DEFAULT_BPM))))

\* The positions in `sent` of the note-offs of track t of call c.
OffsOf(c, t) ==
  { i \in 1..Len(sent) : sent[i].c = c /\ sent[i].t = t /\ sent[i].kind = "off" }

C14_ShortBeforeLong ==
  \A c \in Calls, a \in 1..2, b \in 1..2 :
    ( /\ Dispatched(c) /\ TwoSingleEventTracks(call[c].req)
      /\ EventMs(call[c].req, a) < EventMs(call[c].req, b) )
    => /\ \A j \in OffsOf(c, b) : \E i \in OffsOf(c, a) : i < j
       /\ (tls[c][b].mode = "timer"
           /\ tls[c][b].rem < EventMs(call[c].req, b) - EventMs(call[c].req, a))
          => OffsOf(c, a) # {}
       /\ call[c].st # "failed"
       /\ call[c].st = "returned" =>
            /\ OffsOf(c, b) # {}
            /\ tls[c][b].mode = "done"
            /\ Waited(tls[c][b]) = EventMs(call[c].req, b)

C14_OffAtOwnDeadline ==
  \A c \in Calls, a \in 1..2, b \in 1..2 :
    ( /\ Dispatched(c) /\ TwoSingleEventTracks(call[c].req)
      /\ EventMs(call[c].req, a) < EventMs(call[c].req, b) )
    => \* A's note-off leaves when A's wait ends, with B's wait still running
       /\ (OffsOf(c, a) = {} /\ OffsOf(c, a)' # {}) =>
            /\ tls[c][a].mode = "timer" /\ tls[c][a].rem = 0
            /\ tls[c][b].mode = "timer"
            /\ tls[c][b].rem = EventMs(call[c].req, b) - EventMs(call[c].req, a)
       \* B's note-off leaves when B's wait ends
       /\ (OffsOf(c, b) = {} /\ OffsOf(c, b)' # {}) =>
            (tls[c][b].mode = "timer" /\ tls[c][b].rem = 0)

\* C14: in a song of two single-event tracks where A's event is shorter
\* than B's, A's note-off is delivered before B's, at the end of A's own
\* wait and while B's wait is still running; and the call returns only
\* after B's note-off, when the whole of B's duration has passed.
C14_ShortTrackDoesNotWait ==
  /\ []C14_ShortBeforeLong
  /\ [][C14_OffAtOwnDeadline]_vars

\* The shorter track, the second of the request, has delivered its note-off
\* while the longer one is still waiting and the call is still running.
C14_Witness ==
  \E c \in Calls :
    /\ call[c].req = ReqSongBA /\ call[c].st = "running"
    /\ OffsOf(c, 2) # {} /\ OffsOf(c, 1) = {}
    /\ tls[c][1].mode = "timer" /\ tls[c][1].rem > 0

\* s repeated n times.
RECURSIVE RepeatSeq(_, _)
RepeatSeq(s, n) == IF n <= 0 THEN <<>> ELSE s \o RepeatSeq(s, n - 1)

\* The messages of one execution of a song event as the request gives it:
\* its CC if it has one, a note-on per note, a note-off per note.
EventWire(port, ch, e) ==
  LET notes == IF e.note.tag = "arr" THEN e.note.arr ELSE << e.note.num >>
      vel == Coalesce(e.velocity, 64)
  IN (IF e.cc = None THEN <<>>
      ELSE << << port, << 176 + ch - 1, e.cc[1].controller, e.cc[1].value >> >> >>)
     \o [i \in 1..Len(notes) |-> << port, << 144 + ch - 1, notes[i], vel >> >>]
     \o [i \in 1..Len(notes) |-> << port, << 128 + ch - 1, notes[i], vel >> >>]

\* The events e1..en of track k executed once, in order.
EventsWire(req, k) ==
  LET track == req.tracks[1][k]
      port == IF track.port = None THEN req.port[1] ELSE track.port[1]
      ch == Coalesce(track.channel, 1)
  IN Flatten([ev \in 1..Len(track.notes[1]) |->
                EventWire(port, ch, track.notes[1][ev])])

\* What the request asks of track k: the program change when an instrument
\* is set, then the whole sequence of events once per loop.
SongTrackWire(req, k) ==
  LET track == req.tracks[1][k]
      port == IF track.port = None THEN req.port[1] ELSE track.port[1]
      ch == Coalesce(track.channel, 1)
      loops == IF track.loop = None THEN 1 ELSE track.loop[1]
  IN (IF track.instrument = None THEN <<>>
      ELSE << << port, << 192 + ch - 1, track.instrument[1] >> >> >>)
     \o RepeatSeq(EventsWire(req, k), loops)

\* The waits of a timeline that have come to their end.
EventsExecuted(tl) ==
  Cardinality({ i \in 1..(tl.pc - 1) :
                  /\ tl.plan[i].type = "wait"
                  /\ (i < tl.pc - 1 \/ tl.mode # "timer") })

ProgramChangesOf(c, t) ==
  { i \in 1..Len(SentBy(c, t)) : HighNibble(SentBy(c, t)[i]) = 12 }

\* C15: a song track with an instrument delivers exactly one program
\* change, as its first message and so before its first note-on, and then
\* the whole sequence of its n events once per loop, L times in order
\* (L*n event executions); a track with no instrument delivers no program
\* change, and a track with no loop count runs its events once.
C15_ProgramChangeOnceThenLoops ==
  \A c \in Calls, t \in 1..2 :
    (SongTrack(c, t) /\ call[c].req.tracks[1][t].notes # None) =>
      LET req == call[c].req
          track == req.tracks[1][t]
          loops == IF track.loop = None THEN 1 ELSE track.loop[1]
          d == Wire(SentBy(c, t))
      IN /\ Len(d) <= Len(SongTrackWire(req, t))
         /\ d = SubSeq(SongTrackWire(req, t), 1, Len(d))
         /\ ProgramChangesOf(c, t) \subseteq {1}
         /\ track.instrument = None => ProgramChangesOf(c, t) = {}
         /\ (track.instrument # None /\ d # <<>>) => ProgramChangesOf(c, t) = {1}
         /\ tls[c][t].mode = "done" =>
              /\ d = SongTrackWire(req, t)
              /\ EventsExecuted(tls[c][t]) = loops * Len(track.notes[1])

\* The track with an instrument, two events and the largest loop count has
\* run to its end.
C15_Witness ==
  \E c \in Calls :
    /\ call[c].req = ReqSongLoop /\ call[c].st = "returned"
    /\ tls[c][1].mode = "done"
    /\ EventsExecuted(tls[c][1]) = MaxLoop * 2
    /\ ProgramChangesOf(c, 1) = {1}

\* C16: every message of a song track is delivered to the track's resolved
\* port, the track's own port when it gives one and the song's port
\* otherwise, and to no other port.
C16_TrackSendsToItsPort ==
  \A i \in 1..Len(sent) :
    IsSong(call[sent[i].c].req) =>
      LET req == call[sent[i].c].req
          track == req.tracks[1][sent[i].t]
      IN sent[i].port = (IF track.port # None THEN track.port[1]
                         ELSE req.port[1])

\* In a song on port p1, the track with its own port p2 has delivered a
\* program change, a CC, note-ons and note-offs, and the track without a
\* port of its own has delivered on p1.
C16_Witness ==
  /\ \E c \in Calls :
       /\ call[c].req = ReqSongBadTrack
       /\ { sent[i].kind : i \in { j \in 1..Len(sent) :
                                     sent[j].c = c /\ sent[j].t = 2
                                     /\ sent[j].port = "p2" } }
            = {"pc", "cc", "on", "off"}
  /\ \E c \in Calls :
       /\ call[c].req = ReqSongBA
       /\ \E i \in 1..Len(sent) :
            sent[i].c = c /\ sent[i].t = 2 /\ sent[i].port = "p1"
       /\ \E i \in 1..Len(sent) :
            sent[i].c = c /\ sent[i].t = 1 /\ sent[i].port = "p2"

\* The OUT entries of the log that delivery e accounts for: those of its
\* call, timeline and plan step, with its port and bytes.
OutEntriesOf(e) ==
  { k \in 1..Len(midiLogs) :
      /\ midiLogs[k].direction = "OUT"
      /\ midiLogs[k].by = << e.c, e.t, e.i >>
      /\ midiLogs[k].port = e.port
      /\ midiLogs[k].data = e.bytes }

\* The continuation of the send of delivery e has not run yet.
LogPending(e) ==
  /\ tls[e.c][e.t].mode = "await"
  /\ tls[e.c][e.t].pc - 1 = e.i

\* C17: every successful send appends exactly one OUT entry with the same
\* port and bytes, and a failed send none: the OUT entries never outnumber
\* the deliveries, each OUT entry is that of a delivery, and every delivery
\* has its one entry as soon as the code after its send has run.
C17_EverySendLogged ==
  /\ Cardinality({ k \in 1..Len(midiLogs) : midiLogs[k].direction = "OUT" })
       <= Len(sent)
  /\ \A k \in 1..Len(midiLogs) :
       midiLogs[k].direction = "OUT" =>
         \E i \in 1..Len(sent) : k \in OutEntriesOf(sent[i])
  /\ \A i \in 1..Len(sent) :
       /\ Cardinality(OutEntriesOf(sent[i])) <= 1
       /\ LogPending(sent[i]) => OutEntriesOf(sent[i]) = {}
       /\ ~LogPending(sent[i]) => Cardinality(OutEntriesOf(sent[i])) = 1

\* The number of the input message an IN entry of the log was made for.
MessageNo(entry) == entry.by[3]

\* C18: the log ring never holds more than 100 entries; after n inserts it
\* holds exactly the last min(n, 100) entries inserted, newest first: when
\* one callback is connected per input port, the entry at position i is
\* that of message n - i + 1.  After 101 inserts the entry of message 1 is
\* gone and that of message 101 is at the head.
C18_LogRingKeepsNewest ==
  LET n == received
      kept == IF n < 100 THEN n ELSE 100
  IN /\ Len(midiLogs) <= 100
     /\ (\A p \in InputPorts : subs[p] = 1) =>
          /\ Len(midiLogs) = kept
          /\ \A i \in 1..Len(midiLogs) :
               /\ midiLogs[i].direction = "IN"
               /\ MessageNo(midiLogs[i]) = n - i + 1
          /\ n = 101 =>
               /\ MessageNo(midiLogs[1]) = 101
               /\ \A i \in 1..Len(midiLogs) : MessageNo(midiLogs[i]) # 1

\* The input has delivered its 101st message.
C18_Witness == received = 101 /\ Len(midiLogs) = 100

\* The bytes the interface states for a channel-voice request: the status
\* of the operation plus the channel less one, then the data bytes.
StatedBytes(req) ==
  LET c == req.channel[1] IN
  CASE req.name = "midi_note_on" ->
         << 144 + (c - 1), req.note[1], req.velocity[1] >>
    [] req.name = "midi_note_off" ->
         << 128 + (c - 1), req.note[1], req.velocity[1] >>
    [] req.name = "midi_control_change" ->
         << 176 + (c - 1), req.controller[1], req.value[1] >>
    [] req.name = "midi_program_change" ->
         << 192 + (c - 1), req.program[1] >>

In7Bit(o) == o # None /\ o[1] \in 0..127

\* C19: for every channel c in 1..16 and data values in 0..127 the bytes
\* delivered are [0x90+(c-1), note, velocity] for midi_note_on,
\* [0x80+(c-1), note, velocity] for midi_note_off, [0xB0+(c-1), controller,
\* value] for midi_control_change and [0xC0+(c-1), program] for
\* midi_program_change, on the request's port, and the result reports the
\* channel as c.
C19_ChannelVoiceBytes ==
  \A c \in Calls :
    ( /\ Dispatched(c)
      /\ call[c].req.name \in {"midi_note_on", "midi_note_off",
                               "midi_control_change", "midi_program_change"}
      /\ call[c].req.channel # None /\ call[c].req.channel[1] \in 1..16
      /\ call[c].req.name \in {"midi_note_on", "midi_note_off"} =>
           (In7Bit(call[c].req.note) /\ In7Bit(call[c].req.velocity))
      /\ call[c].req.name = "midi_control_change" =>
           (In7Bit(call[c].req.controller) /\ In7Bit(call[c].req.value))
      /\ call[c].req.name = "midi_program_change" =>
           In7Bit(call[c].req.program) )
    => /\ call[c].st # "failed"
       /\ Wire(SentByCall(c))
            = << << call[c].req.port[1], StatedBytes(call[c].req) >> >>
       /\ ReportedChannel(call[c].req) = call[c].req.channel[1]

\* A control change of controller 127 to value 127 on channel 16 has been
\* delivered as 0xBF 0x7F 0x7F and the call has returned.
C19_Witness ==
  /\ call[1].st = "returned"
  /\ call[1].req.name = "midi_control_change"
  /\ call[1].req.channel = Some(16)
  /\ Wire(SentByCall(1)) = << << "p1", << 191, 127, 127 >> >> >>

\* C20: for every bend value v in -8192..8191 and channel c in 1..16,
\* midi_pitch_bend delivers [0xE0+(c-1), lsb, msb] with lsb and msb in
\* 0..127 and lsb + 128*msb = v + 8192; -8192 gives (0x00, 0x00), 0 gives
\* (0x00, 0x40) and 8191 gives (0x7F, 0x7F).
C20_PitchBendBytes ==
  \A c \in Calls :
    ( /\ Dispatched(c)
      /\ call[c].req.name = "midi_pitch_bend"
      /\ call[c].req.channel # None /\ call[c].req.channel[1] \in 1..16
      /\ call[c].req.value # None /\ call[c].req.value[1] \in -8192..8191 )
    => LET v == call[c].req.value[1]
           d == SentByCall(c)
       IN /\ call[c].st # "failed"
          /\ Len(d) = 1
          /\ d[1].port = call[c].req.port[1]
          /\ Len(d[1].bytes) = 3
          /\ d[1].bytes[1] = 224 + (call[c].req.channel[1] - 1)
          /\ d[1].bytes[2] \in 0..127
          /\ d[1].bytes[3] \in 0..127
          /\ d[1].bytes[2] + 128 * d[1].bytes[3] = v + 8192
          /\ v = -8192 => (d[1].bytes[2] = 0 /\ d[1].bytes[3] = 0)
          /\ v = 0 => (d[1].bytes[2] = 0 /\ d[1].bytes[3] = 64)
          /\ v = 8191 => (d[1].bytes[2] = 127 /\ d[1].bytes[3] = 127)

\* The largest bend on channel 16 has been delivered as 0xEF 0x7F 0x7F.
C20_Witness ==
  /\ call[1].st = "returned"
  /\ call[1].req.name = "midi_pitch_bend"
  /\ call[1].req.value = Some(8191)
  /\ Wire(SentByCall(1)) = << << "p1", << 239, 127, 127 >> >> >>

\* A song of one track that plays one note-event once.
OneEventSong(req) ==
  /\ IsSong(req) /\ req.tracks # None /\ Len(req.tracks[1]) = 1
  /\ req.tracks[1][1].notes # None /\ Len(req.tracks[1][1].notes[1]) = 1
  /\ req.tracks[1][1].loop = None

\* The length of a song duration in sixteenths of a whole note, that is in
\* quarters of a beat: d beats for a number d, and for a name what the name
\* says; any other string, and no duration, is one beat.
QuarterBeats(duration) ==
  CASE duration.tag = "num" -> 4 * duration.num
    [] duration.tag = "sym" /\ duration.sym = "whole" -> 16
    [] duration.tag = "sym" /\ duration.sym = "half" -> 8
    [] duration.tag = "sym" /\ duration.sym = "quarter" -> 4
    [] duration.tag = "sym" /\ duration.sym = "eighth" -> 2
    [] duration.tag = "sym" /\ duration.sym = "sixteenth" -> 1
    [] OTHER -> 4

\* C21: the timing resolver gives a duration of q quarter-beats the length
\* q/4 * 60000/bpm ms (d beats for a number d, whole 4 beats, half 2,
\* quarter 1, eighth 1/2, sixteenth 1/4, any other string 1 beat, with no
\* error): the event's wait runs for the whole milliseconds of that length.
\* Quarter at 120 bpm is 500 ms, eighth at 120 bpm 250 ms, 2 at 120 bpm
\* 1000 ms, half at 60 bpm 2000 ms.
C21_TimingResolver ==
  \A c \in Calls :
    (Dispatched(c) /\ OneEventSong(call[c].req)) =>
      LET req == call[c].req
          bpm == IF req.bpm = None THEN 120 ELSE req.bpm[1]
          duration == req.tracks[1][1].notes[1][1].duration
          q == QuarterBeats(duration)
          resolved == GetDuration(duration, BeatDuration(bpm))
          ms == (60000 * q) \div (4 * bpm)
          tl == tls[c][1]
      IN /\ call[c].st # "failed"
         /\ tl.mode # "failed"
         \* the resolved length is exactly q/4 * 60000/bpm
         /\ resolved.num * 4 * bpm = 60000 * q * resolved.den
         \* and the wait runs for it
         /\ tl.mode = "timer" => (tl.plan[tl.pc - 1].ms = ms /\ tl.rem <= ms)
         /\ tl.mode = "done" => Waited(tl) = ms
         /\ (bpm = 120 /\ duration = DurSym("quarter")) => ms = 500
         /\ (bpm = 120 /\ duration = DurSym("eighth")) => ms = 250
         /\ (bpm = 120 /\ duration = DurNum(2)) => ms = 1000
         /\ (bpm = 60 /\ duration = DurSym("half")) => ms = 2000

\* A half note at 60 bpm has been waited for 2000 ms, and a note with an
\* unknown duration name at 120 bpm for 500 ms.
C21_Witness ==
  /\ call[1].st = "returned"
  /\ OneEventSong(call[1].req)
  /\ \/ /\ call[1].req.bpm = Some(60)
        /\ call[1].req.tracks[1][1].notes[1][1].duration = DurSym("half")
        /\ Waited(tls[1][1]) = 2000
     \/ /\ call[1].req.bpm = Some(120)
        /\ call[1].req.tracks[1][1].notes[1][1].duration = DurSym("dotted")
        /\ Waited(tls[1][1]) = 500

\* The timeline's send at its step pc threw because its port did not open.
FailedToOpen(tl) == tl.mode = "failed" /\ tl.err = "open"

\* The error sendMessage throws for an output port that does not open.
OpenError(portName) == "Failed to open MIDI output port: " \o portName

\* C22: a send to an output port that cannot be opened fails the call with
\* an error that names the port and says it is an output port; the send is
\* not tried again and the message is delivered to no port.
C22_OpenFailureFailsCall ==
  \* a timeline never gets past a send to a port that does not open, and
  \* nothing of that step or a later one is delivered
  /\ [](\A c \in Calls : \A t \in 1..Len(tls[c]) :
          \A i \in 1..Len(tls[c][t].plan) :
            LET item == tls[c][t].plan[i] IN
            (item.type = "send" /\ ~OpenMidiOut(item.port)) =>
              /\ tls[c][t].pc <= i
              /\ \A k \in 1..Len(sent) :
                   ~(sent[k].c = c /\ sent[k].t = t /\ sent[k].i >= i))
  /\ [](\A c \in Calls : \A t \in 1..Len(tls[c]) :
          FailedToOpen(tls[c][t]) =>
            LET tl == tls[c][t]
                item == tl.plan[tl.pc]
            IN \* the call fails: at once, or for a song when Promise.all
               \* rejects, with the error of a port that did not open
               /\ call[c].st = "failed" \/ (IsSong(call[c].req) /\ JoinReady(c))
               /\ call[c].st # "returned"
               /\ call[c].st = "failed" =>
                    \E u \in 1..Len(tls[c]) :
                      /\ FailedToOpen(tls[c][u])
                      /\ call[c].err = OpenError(tls[c][u].plan[tls[c][u].pc].port)
               \* the message of the failing step has gone to no port
               /\ \A k \in 1..Len(sent) :
                    ~(sent[k].c = c /\ sent[k].t = t /\ sent[k].i >= tl.pc)
               /\ item.port \notin activeOutputs)
  /\ [][\A c \in Calls : \A t \in 1..Len(tls[c]) :
          FailedToOpen(tls[c][t]) =>
            \* the timeline does nothing more
            /\ (call'[c].st # "idle" => tls'[c][t] = tls[c][t])
            /\ SentBy(c, t)' = SentBy(c, t)]_vars

\* A chord on a port that does not open has failed with the error naming
\* the port, while another call's port is open and has taken no message of
\* the chord.
C22_Witness ==
  \E c \in Calls :
    /\ call[c].req = ReqPlayChordBadPort
    /\ call[c].st = "failed"
    /\ call[c].err = "Failed to open MIDI output port: nope"
    /\ FailedToOpen(tls[c][1])
    /\ activeOutputs # {}
    /\ SentByCall(c) = <<>>

\* The tool names of the ten operations: sendRaw, noteOn, noteOff, playNote,
\* controlChange, programChange, pitchBend, playSequence, playChord,
\* playSong.
Operations ==
  {"midi_send", "midi_note_on", "midi_note_off", "midi_play_note",
   "midi_control_change", "midi_program_change", "midi_pitch_bend",
   "midi_play_sequence", "midi_play_chord", "midi_play_song"}

\* The step dispatches call c.
Dispatches(c) == call[c].st = "idle" /\ call'[c].st # "idle"

ReadSurface(req) == req.name \in {"midi_list_ports", "resources/read"}

\* C24: the read surfaces do not change state.  A read that is the first
\* request of the process, with no other request under way, has ended: the
\* log ring, the caches of open handles and the input subscriptions are
\* those of the fresh process, and an unknown resource has failed with the
\* not-found error.
C24_ReadsLeaveStateUnchanged ==
  (/\ call[1].st \in {"returned", "failed"}
   /\ ReadSurface(call[1].req)
   /\ call[2].st = "idle"
   /\ received = 0) =>
     /\ midiLogs = <<>>
     /\ activeOutputs = {}
     /\ activeInputs = {}
     /\ connectedInputs = {}
     /\ \A q \in InputPorts : subs[q] = 0
     /\ call[1].st = "failed" <=> call[1].req = ReadReq("midi://nothing")
     /\ call[1].st = "failed" => call[1].err = "Resource not found"

\* The group of a delivery within its event: the control change and the
\* note-ons, or the note-offs.
GroupOf(e) ==
  CASE e.kind \in {"cc", "on"} -> "ons"
    [] e.kind = "off" -> "offs"
    [] OTHER -> "none"

\* Deliveries k and m are consecutive sends of one group of one timeline.
SameGroup(k, m) ==
  /\ sent[k].c = sent[m].c /\ sent[k].t = sent[m].t
  /\ sent[m].i = sent[k].i + 1
  /\ sent[k].loop = sent[m].loop /\ sent[k].ev = sent[m].ev
  /\ GroupOf(sent[k]) = GroupOf(sent[m])
  /\ GroupOf(sent[k]) # "none"

\* C25: a timeline is suspended only in the wait between an event's
\* note-ons and its note-offs: two consecutive sends of one group (the
\* control change and note-ons of an event, or its note-offs) are next to
\* each other among the deliveries, no send of another call or track comes
\* between them.
C25_GroupsNotInterleaved ==
  \A k \in 1..Len(sent) : \A m \in 1..Len(sent) :
    (k < m /\ SameGroup(k, m)) => m = k + 1

\* The deliveries whose send opened port q.
OpensOf(q) == { k \in 1..Len(sent) : sent[k].port = q /\ sent[k].opened }

\* C26: an output port is opened or reused: over every interleaving of the
\* calls a port name is opened at most once, by the first send to it; the
\* handle is then cached under the name and stays cached, and every later
\* send to the name uses the cached handle.
C26_OpenOrReuse ==
  /\ [](/\ \A q \in OutputPorts \cup {"nope"} : Cardinality(OpensOf(q)) <= 1
        /\ \A k \in 1..Len(sent) :
             /\ sent[k].port \in activeOutputs
             /\ sent[k].opened <=>
                  (\A j \in 1..(k - 1) : sent[j].port # sent[k].port)
        /\ activeOutputs = { sent[k].port : k \in 1..Len(sent) })
  /\ [][activeOutputs \subseteq activeOutputs']_vars

\* Two calls have sent to one port: the first send opened it, the send of
\* the other call reused it, and the timeline that opened it is suspended
\* at the await of a send.
C26_Witness ==
  \E k \in 1..Len(sent) : \E m \in 1..Len(sent) :
    /\ k < m
    /\ sent[k].port = sent[m].port
    /\ sent[k].c # sent[m].c
    /\ sent[k].opened /\ ~sent[m].opened
    /\ tls[sent[k].c][sent[k].t].mode = "await"

\* Call c is a midi_play_sequence or midi_play_chord that has a plan.
SingleTrackCall(c) ==
  /\ Dispatched(c)
  /\ call[c].req.name \in {"midi_play_sequence", "midi_play_chord"}
  /\ Len(tls[c]) = 1

\* The send at step i of the plan fails: its port does not open, or a byte
\* of its message is not a number.
FailingSend(plan, i) ==
  /\ plan[i].type = "send"
  /\ ~OpenMidiOut(plan[i].port) \/ LogThrows(plan[i].bytes)

C28_MessagesAreShort ==
  \A k \in 1..Len(sent) :
    /\ Len(sent[k].bytes) \in 1..3
    /\ \A i \in 1..Len(sent[k].bytes) : sent[k].bytes[i] \in 0..255

\* Call c plays the plan of a sequence, a chord or a song and has not ended.
Playing(c) ==
  /\ call[c].st = "running"
  /\ call[c].req.name \in
       {"midi_play_sequence", "midi_play_chord", "midi_play_song"}

\* Call c has ended with its summary or with a failure.
Completed(c) == call[c].st \in {"returned", "failed"}

\* A timeline of call c waits for a send or for a timer, or its Promise.all
\* is about to resume.
Pending(c) ==
  \/ \E t \in 1..Len(tls[c]) : tls[c][t].mode \in {"await", "timer"}
  \/ JoinReady(c)

\* C29: every accepted midi_play_sequence, midi_play_chord and
\* midi_play_song call ends, with its summary or with a failure, when the
\* event loop keeps running and timers fire; and no plan is ever stuck: a
\* timeline with steps left waits for a send or a timer unless it has
\* thrown, and a call that has not ended has something pending.
C29_PlansComplete ==
  /\ \A c \in Calls : Playing(c) ~> Completed(c)
  /\ [](\A c \in Calls :
          /\ \A t \in 1..Len(tls[c]) :
               tls[c][t].pc <= Len(tls[c][t].plan) =>
                 tls[c][t].mode \in {"await", "timer", "failed"}
          /\ Playing(c) => Pending(c))

\* Two plans have been played to the end together: a looped song has
\* returned and a chord has returned.
C29_Witness ==
  /\ call[1].req = ReqSongLoop /\ call[1].st = "returned"
  /\ call[2].req = ReqPlayChord /\ call[2].st = "returned"
  /\ Len(SentByCall(1)) > 1 /\ Len(SentByCall(2)) = 4

\* The value of an optional field: the one given, or else d.
OrElse(o, d) == IF o = None THEN d ELSE o[1]

\* The optional fields that apply to a delivery e of request req.
VelocityField(req, e) ==
  CASE req.name = "midi_play_sequence" -> req.items[1][e.ev].velocity
    [] req.name = "midi_play_song" -> req.tracks[1][e.t].notes[1][e.ev].velocity
    [] OTHER -> req.velocity

ChannelField(req, e) ==
  IF req.name = "midi_play_song" THEN req.tracks[1][e.t].channel
  ELSE req.channel

\* The optional duration, in ms, of the wait at step i of the plan.
DurationField(req, item) ==
  IF req.name = "midi_play_sequence" THEN req.items[1][item.ev].duration
  ELSE req.duration

\* The length in ms the wait of a note of request req shall have: the
\* duration given or 500 ms; for a quarter note of a song one beat of the
\* bpm given or of 120 bpm.
WaitOf(req, item) ==
  IF req.name = "midi_play_song"
  THEN 60000 \div OrElse(req.bpm, 120)
  ELSE OrElse(DurationField(req, item), 500)

\* A request of a note operation with a quarter note where it is a song.
NoteOperation(req) ==
  \/ req.name \in {"midi_note_on", "midi_note_off", "midi_play_note",
                   "midi_play_chord", "midi_play_sequence"}
  \/ /\ OneEventSong(req)
     /\ req.tracks[1][1].notes[1][1].duration = DurSym("quarter")

StartsWithSend(c, t) ==
  LET plan == tls[c][t].plan IN
  /\ plan # <<>>
  /\ plan[1].type = "send"
  /\ OpenMidiOut(plan[1].port)

\* Timeline t of call c has delivered the first message of its plan.
Started(c, t) ==
  /\ SentBy(c, t) # <<>>
  /\ SentBy(c, t)[1].i = 1

\* C31: all tracks of a song start at the same instant: every track has
\* delivered its first message when the handler reaches Promise.all, in the
\* order of the tracks in the request, so no time passes and no wait of any
\* track runs before every track has started.
C31_TracksStartTogether ==
  /\ [](\A c \in Calls :
          (Dispatched(c) /\ IsSong(call[c].req)) =>
            /\ \A t \in 1..Len(tls[c]) : StartsWithSend(c, t) => Started(c, t)
            \* the first messages are delivered in the order of the tracks
            /\ \A t \in 1..Len(tls[c]) : \A u \in 1..Len(tls[c]) :
                 (t < u /\ Started(c, t) /\ Started(c, u)) =>
                   \E k \in 1..Len(sent) : \E m \in 1..Len(sent) :
                     /\ k < m
                     /\ sent[k].c = c /\ sent[k].t = t /\ sent[k].i = 1
                     /\ sent[m].c = c /\ sent[m].t = u /\ sent[m].i = 1)
  /\ [][TimePasses =>
          \A c \in Calls :
            (Dispatched(c) /\ IsSong(call[c].req)) =>
              \A t \in 1..Len(tls[c]) : StartsWithSend(c, t) => Started(c, t)]_vars

\* The song whose longer track comes first: both tracks have delivered
\* their first note-on and the first wait of both is still running in full.
C31_Witness ==
  \E c \in Calls :
    /\ call[c].req = ReqSongBA
    /\ Len(tls[c]) = 2
    /\ Started(c, 1) /\ Started(c, 2)
    /\ \A t \in 1..2 :
         /\ tls[c][t].mode = "timer"
         /\ tls[c][t].rem = EventMs(call[c].req, t)

\* The positions before j of the program changes on the port and channel of
\* delivery j.
ProgramChangesBefore(j) ==
  { i \in 1..(j - 1) :
      /\ sent[i].kind = "pc"
      /\ sent[i].port = sent[j].port
      /\ LowNibble(sent[i]) = LowNibble(sent[j]) }

\* C32: timelines do not change each other's channel state: when a song
\* track that set an instrument sends a note-on, the latest program change
\* delivered on the track's port and channel is the track's own, also when
\* several tracks use one port and one channel.
C32_OwnProgramAtNoteOn ==
  \A j \in 1..Len(sent) :
    (/\ sent[j].kind = "on"
     /\ IsSong(call[sent[j].c].req)
     /\ call[sent[j].c].req.tracks[1][sent[j].t].instrument # None) =>
       LET before == ProgramChangesBefore(j)
           last == CHOOSE i \in before : \A h \in before : h <= i
       IN /\ before # {}
          /\ sent[last].c = sent[j].c
          /\ sent[last].t = sent[j].t

\* The tracks of call c that have thrown.
FailedTracks(c) == { t \in 1..Len(tls[c]) : tls[c][t].mode = "failed" }

\* The track errors the failure of call c carries: the handler rejects with
\* one Error, whose message is call[c].err.
ReportedErrors(c) == { call[c].err }

\* C33: when two or more tracks of a song fail, the failure of the call
\* reports every failing track: the error of each failed track is part of
\* what the caller gets, none is dropped.
C33_EveryTrackFailureReported ==
  \A c \in Calls :
    (/\ IsSong(call[c].req)
     /\ call[c].st = "failed"
     /\ Cardinality(FailedTracks(c)) >= 2) =>
       \A t \in FailedTracks(c) : ErrorOf(tls[c][t]) \in ReportedErrors(c)

\* What a note-on and its note-off have in common: the port, the channel
\* (the status byte less its kind), the note and the velocity.
PairKey(e) ==
  << e.port, e.bytes[1] - (IF e.kind = "on" THEN NOTE_ON ELSE NOTE_OFF),
     e.bytes[2], e.bytes[3] >>

\* How many deliveries of the given kind timeline (c, t) has made for key
\* among the first j deliveries.
CountOf(c, t, kind, key, j) ==
  Cardinality({ i \in 1..j :
                  /\ sent[i].c = c /\ sent[i].t = t
                  /\ sent[i].kind = kind /\ PairKey(sent[i]) = key })

\* C34: every note-off of midi_play_note, midi_play_sequence,
\* midi_play_chord and of a song track comes after a note-on of the same
\* call or track with the same port, channel, note and velocity; at no time
\* has a timeline sent more note-offs than note-ons for one of these, and
\* when its plan has ended without a failure it has sent as many.
C34_NoteOffsPairNoteOns ==
  /\ \A j \in 1..Len(sent) :
       (sent[j].kind = "off" /\ Playback(sent[j].c)) =>
         LET e == sent[j] IN
         CountOf(e.c, e.t, "off", PairKey(e), j)
           <= CountOf(e.c, e.t, "on", PairKey(e), j)
  /\ \A j \in 1..Len(sent) :
       (/\ sent[j].kind \in {"on", "off"}
        /\ Playback(sent[j].c)
        /\ tls[sent[j].c][sent[j].t].mode = "done") =>
         LET e == sent[j] IN
         CountOf(e.c, e.t, "off", PairKey(e), Len(sent))
           = CountOf(e.c, e.t, "on", PairKey(e), Len(sent))

\* A chord and a looped song track have ended on the same port: each has
\* sent a note-off for every note-on.
C34_Witness ==
  \E c \in Calls : \E d \in Calls :
    /\ call[c].req = ReqPlayChord /\ tls[c][1].mode = "done"
    /\ call[d].req = ReqSongLoop /\ tls[d][1].mode = "done"
    /\ Len(PlayNoteOffs(c)) = 2
    /\ Len(PlayNoteOffs(d)) = Len(PlayNoteOns(d))
    /\ Len(PlayNoteOffs(d)) > 2

\* The IN entries the log holds for input message n.
InEntriesOf(n) ==
  { k \in 1..Len(midiLogs) :
      midiLogs[k].direction = "IN" /\ MessageNo(midiLogs[k]) = n }

\* C35: each input port is subscribed for logging at most once, and every
\* message received on an input port has exactly one IN entry in the log,
\* also when requests arrive while the first request is still setting up
\* the service and connecting the inputs.
C35_OneSubscriptionPerInput ==
  /\ \A q \in InputPorts : subs[q] <= 1
  /\ \A n \in 1..received : Cardinality(InEntriesOf(n)) = 1

\* Call c is inside getMidi with the instance that getInstance returned.
HoldsService(c) == call[c].st \in {"lp_init", "lp_ret", "listen", "gm_ret"}

\* Call c got the instance from getInstance without running initialize
\* itself and before any initialize had finished.
GotUninitialised(c) == call[c].st = "lp_init"

\* C36: the MIDI subsystem is initialised at most once per process, and a
\* caller of getInstance during the first initialisation neither gets a
\* service that is not initialised nor starts a second initialisation; no
\* message is sent before the initialisation has finished.
C36_InitialisedOnce ==
  /\ initCount <= 1
  /\ \A c \in Calls : ~GotUninitialised(c)
  /\ \A c \in Calls : (HoldsService(c) /\ call[c].st # "lp_init") => jzz
  /\ sent # <<>> => jzz

\* The port names the requests of the model send to.
PortNames == OutputPorts \cup {"nope", "gone"}

\* C37: a failed open of an output port leaves the cache of handles as it
\* was, so every later send to the name tries the open again (and fails
\* again while the port does not open); once a send to a name has
\* succeeded no send to that name fails to open, so in a midi_play_chord or
\* midi_play_sequence call only the first send can fail to open.
C37_OpenFailureNotCached ==
  \* a name that does not open is never cached, the cache holds only names
  \* that were delivered to
  /\ \A q \in PortNames : ~OpenMidiOut(q) => q \notin activeOutputs
  /\ activeOutputs \subseteq { sent[k].port : k \in 1..Len(sent) }
  /\ \A c \in Calls : \A t \in 1..Len(tls[c]) :
       LET tl == tls[c][t] IN
       \* each send to such a name fails to open, the later ones too
       /\ (tl.plan # <<>> /\ tl.plan[1].type = "send"
           /\ ~OpenMidiOut(tl.plan[1].port)) => (FailedToOpen(tl) /\ tl.pc = 1)
       /\ FailedToOpen(tl) =>
            \* nothing was ever delivered to the name
            /\ \A k \in 1..Len(sent) : sent[k].port # tl.plan[tl.pc].port
            \* and the send is the first of its timeline
            /\ SentBy(c, t) = <<>>
            /\ call[c].req.name \in {"midi_play_chord", "midi_play_sequence"}
                 => tl.pc = 1

\* Two calls, one after the other, have failed to open the same port, and
\* the cache holds no handle.
C37_Witness ==
  /\ call[1].req = ReqPlayNoteBadPort /\ FailedToOpen(tls[1][1])
  /\ call[2].req = ReqPlayChordBadPort /\ FailedToOpen(tls[2][1])
  /\ call[2].err = OpenError("nope")
  /\ activeOutputs = {}

\* Log entries k and m are OUT entries of one timeline.
SameTimeline(k, m) ==
  /\ midiLogs[k].direction = "OUT" /\ midiLogs[m].direction = "OUT"
  /\ midiLogs[k].by[1] = midiLogs[m].by[1]
  /\ midiLogs[k].by[2] = midiLogs[m].by[2]

\* C38: within a timeline each message sent is logged before the timeline
\* sends its next message: when a timeline has made a delivery, each of its
\* earlier deliveries has its OUT entry, and the OUT entries of a timeline
\* lie in the log in the order of its sends, the newest first, however the
\* timelines interleave.
C38_LoggedBeforeNextSend ==
  /\ \A i \in 1..Len(sent) :
       (\E j \in (i + 1)..Len(sent) :
          sent[i].c = sent[j].c /\ sent[i].t = sent[j].t) =>
         Cardinality(OutEntriesOf(sent[i])) = 1
  /\ \A k \in 1..Len(midiLogs) : \A m \in 1..Len(midiLogs) :
       (k < m /\ SameTimeline(k, m)) => midiLogs[k].by[3] > midiLogs[m].by[3]

\* The log holds the entries of two timelines interleaved: between two
\* entries of one call lies an entry of the other, and each call has more
\* entries still.
C38_Witness ==
  \E k \in 1..Len(midiLogs) : \E m \in 1..Len(midiLogs) :
    /\ k + 1 < m
    /\ SameTimeline(k, m)
    /\ midiLogs[k + 1].by[1] # midiLogs[k].by[1]
    /\ Len(LoggedByCall(midiLogs[k].by[1])) >= 3
    /\ Len(LoggedByCall(midiLogs[k + 1].by[1])) >= 2

\* Call c is a midi_play_note whose port does not open.
PlayNoteCannotOpen(c) ==
  /\ Dispatched(c)
  /\ call[c].req.name = "midi_play_note"
  /\ call[c].req.note # None
  /\ ~Falsy(call[c].req.port)
  /\ ~OpenMidiOut(call[c].req.port[1])

\* C39: when the note-on send of midi_play_note fails, the call fails, no
\* timer for the note-off is set, no note-off is ever sent for the call and
\* no entry is added to the log.
C39_PlayNoteOnFailure ==
  /\ [](\A c \in Calls :
          PlayNoteCannotOpen(c) =>
            /\ call[c].st = "failed"
            /\ call[c].err = OpenError(call[c].req.port[1])
            /\ Len(tls[c]) = 1
            /\ FailedToOpen(tls[c][1]) /\ tls[c][1].pc = 1
            /\ << c, 1 >> \notin Timers
            /\ SentByCall(c) = <<>>
            /\ LoggedByCall(c) = <<>>)
  /\ [][\A c \in Calls :
          (Dispatches(c) /\ PlayNoteCannotOpen(c)') =>
            /\ midiLogs' = midiLogs
            /\ sent' = sent
            /\ Timers' = Timers]_vars

\* A midi_play_note on a port that does not open has failed beside another
\* midi_play_note: that note has been played and released, and the log
\* holds the two entries of that note only.
C39_Witness ==
  /\ call[2].req = ReqPlayNoteBadPort /\ call[2].st = "failed"
  /\ call[1].req = ReqPlayNote /\ tls[1][1].mode = "done"
  /\ Len(SentByCall(1)) = 2
  /\ Len(midiLogs) = 2
  /\ SentByCall(2) = <<>>

====
